---------------------------- MODULE Spec2Model ----------------------------
(***************************************************************************)
(* Entity configuration by option functions (libpod/options.go).           *)
(*                                                                         *)
(* A Runtime, Container, Pod or Volume is configured by applying option    *)
(* closures to it one after the other; the entity is then marked valid     *)
(* (finalized).  Every option is modelled as an operator that takes the    *)
(* closure's captured arguments and the entity, and yields the returned    *)
(* error together with the entity as the closure leaves it.                *)
(*                                                                         *)
(* Go maps are modelled as sets of <<key, value>> pairs (a nil map and an  *)
(* empty map are the same value), slices as sequences, opaque values as    *)
(* strings.  An error is modelled by its cause (errors.Wrapf keeps it).    *)
(***************************************************************************)
EXTENDS Integers, Sequences, FiniteSets, TLC

VARIABLES
    rts,        \* runtime handle   -> Runtime   (valid, config, storageConfig, ...)
    ctrs,       \* container handle -> Container (valid, config)
    pods,       \* pod handle       -> Pod       (valid, config, state)
    vols,       \* volume handle    -> Volume    (valid, config, state)
    infraSpec,  \* the *specgen.SpecGenerator handed to WithInfraConmonPidFile
    store,      \* ids of the entities created in the backing store
    aborted,    \* handles of entities whose construction failed (discarded)
    budget,     \* option applications the caller still makes
    lastOp,     \* the last option application: kind, name, target, error
    bld         \* the entity builder: option list, position, result

vars == <<rts, ctrs, pods, vols, infraSpec, store, aborted, budget, lastOp, bld>>

----------------------------------------------------------------------------
(* Bounds of the model *)

MaxCtrOps == 2
MaxNSOps == 2
MaxRtOps == 2
MaxPodOps == 2
MaxVolOps == 3
MaxAllOps == 1
MaxArgOps == 3
MaxConcOps == 2
MaxBuildOpts == 3

----------------------------------------------------------------------------
(* Errors (libpod/define) *)

Nil == "nil"
ErrRuntimeFinalized == "ErrRuntimeFinalized"
ErrCtrFinalized == "ErrCtrFinalized"
ErrPodFinalized == "ErrPodFinalized"
ErrVolumeFinalized == "ErrVolumeFinalized"
ErrInvalidArg == "ErrInvalidArg"
RegexError == "RegexError"
ErrNoSuchCtr == "ErrNoSuchCtr"
ErrStat == "ErrStat"
ErrSecret == "ErrSecret"
ErrJSON == "ErrJSON"
ErrPlain == "error"
ErrStoreDefaults == "ErrStoreDefaults"

Ok(e) == [err |-> Nil, ent |-> e]
Fail(err, e) == [err |-> err, ent |-> e]

----------------------------------------------------------------------------
(* Values the options are called with *)

\* A pointer is <<>> (nil) or <<x>>
NilRef == <<>>
Ptr(x) == <<x>>
IsNil(p) == Len(p) = 0
Deref(p) == p[1]

AlNum == {"a", "Z", "0"}
NameChars == AlNum \cup {"_", ".", "-"}

\* define.NameRegex: ^[a-zA-Z0-9][a-zA-Z0-9_.-]*$ , on names as sequences of characters
NameRegexMatch(name) ==
    /\ Len(name) >= 1
    /\ name[1] \in AlNum
    /\ \A i \in 2..Len(name) : name[i] \in NameChars

\* define.UmaskRegex: ^[0-7]{1,4}$ , on umasks as sequences of digits
UmaskRegexMatch(umask) ==
    /\ Len(umask) \in 1..4
    /\ \A i \in 1..Len(umask) : umask[i] \in 0..7

\* strings.ToLower on the mode strings the model uses
ToLower(s) ==
    CASE s = "Container" -> "container"
      [] s = "CONMON" -> "conmon"
      [] s = "Ignore" -> "ignore"
      [] OTHER -> s

\* net.ParseIP on the strings the model uses: the parsed address, or "" for nil
ParseIP(s) ==
    CASE s = "10.0.0.1" -> "ip:10.0.0.1"
      [] s = "::1" -> "ip:::1"
      [] OTHER -> ""

\* os.Stat on the paths the model uses
StatOK(path) == path \in {"/exists", "/etc/registries.conf"}
StatIsDir(path) == path \in {"/usr/share/zoneinfo/Europe"}
ZoneExists(path) == path \in {"/usr/share/zoneinfo/UTC", "/usr/share/zoneinfo/Europe"}

\* util.ProcessOptions on the mount option lists the model uses
ProcessOptionsOK(options) == options # <<"bogus">>
ProcessOptions(options) == IF options = <<>> THEN <<"rw">> ELSE options

\* secrets manager contents
SecretNames == {"s1", "s2"}
SecretLookupOK(src) == src \in SecretNames
SecretOf(src) == "secret:" \o src

\* Conversions to unsigned types.  TLC's integers are 32 bits wide, so the model
\* scales the widths down: uint32 wraps at 2^20 and uint at 2^30, and the int
\* values of the model range below 2^31.
Uint32(n) == n % 1048576
Uint(n) == n % 1073741824

SeqMap(Op(_), s) == [i \in 1..Len(s) |-> Op(s[i])]

----------------------------------------------------------------------------
(* Container: zero-value configuration (ContainerConfig fields the options write) *)

NoIDMappings == [UIDMap |-> <<>>, GIDMap |-> <<>>]
NoSpec == [UIDMappings |-> <<>>, GIDMappings |-> <<>>]

ZeroCtrConfig ==
    [ID |-> "", Name |-> <<>>, Pod |-> "", Namespace |-> "",
     CDIDevices |-> <<>>, StorageOpts |-> {}, LogSize |-> 0, ShmDir |-> "",
     Systemd |-> FALSE, SdNotifyMode |-> "", ShmSize |-> 0, Privileged |-> FALSE,
     LabelOpts |-> <<>>, User |-> "",
     RootfsImageID |-> "", RootfsImageName |-> "", RawImageName |-> "",
     Stdin |-> FALSE, Labels |-> {}, StopSignal |-> 0, StopTimeout |-> 0, Timeout |-> 0,
     IDMappings |-> NoIDMappings, Spec |-> NoSpec, ExitCommand |-> <<>>,
     UTSNsCtr |-> "", IPCNsCtr |-> "", MountNsCtr |-> "", NetNsCtr |-> "",
     PIDNsCtr |-> "", UserNsCtr |-> "", CgroupNsCtr |-> "",
     AddCurrentUserPasswdEntry |-> FALSE, Dependencies |-> <<>>,
     PostConfigureNetNS |-> FALSE, NetMode |-> "", CreateNetNS |-> FALSE,
     PortMappings |-> <<>>, ExposedPorts |-> {}, Networks |-> <<>>,
     StaticIP |-> "", NetworkOptions |-> {}, StaticMAC |-> "",
     LogDriver |-> "", LogPath |-> "", LogTag |-> "",
     NoCgroups |-> FALSE, CgroupsMode |-> "", CgroupParent |-> "",
     DNSSearch |-> <<>>, DNSServer |-> <<>>, DNSOption |-> <<>>, HostAdd |-> <<>>,
     ConmonPidFile |-> "", Groups |-> <<>>, UserVolumes |-> <<>>,
     Entrypoint |-> <<>>, Command |-> <<>>, Rootfs |-> "", RootfsOverlay |-> FALSE,
     UseImageResolvConf |-> FALSE, UseImageHosts |-> FALSE,
     RestartPolicy |-> "", RestartRetries |-> 0,
     NamedVolumes |-> <<>>, OverlayVolumes |-> <<>>, ImageVolumes |-> <<>>,
     HealthCheckConfig |-> "", PreserveFDs |-> 0, CreateCommand |-> <<>>,
     IsInfra |-> FALSE, CreateWorkingDir |-> FALSE, NetworkAliases |-> {},
     Timezone |-> "", Umask |-> <<>>, Secrets |-> <<>>, EnvSecrets |-> {},
     PidFile |-> "", InitContainerType |-> "", DeviceHostSrc |-> <<>>,
     Volatile |-> FALSE]

\* Container.ID(), Container.PodID(), Container.IDMappings()
CtrID(ctr) == ctr.config.ID
CtrPodID(ctr) == ctr.config.Pod
CtrIDMappings(ctr) == ctr.config.IDMappings

\* Pod.ID()
PodID(pod) == pod.config.ID

----------------------------------------------------------------------------
(* Namespace dependency resolver *)

\* checkDependencyContainer(depCtr, ctr): depCtr is a pointer to a Container
checkDependencyContainer(depCtr, ctr) ==
    IF IsNil(depCtr) THEN ErrInvalidArg
    ELSE IF ctr.config.Pod # "" /\ CtrPodID(Deref(depCtr)) # ctr.config.Pod THEN ErrInvalidArg
    ELSE Nil

\* validPodNSOption(p, ctrPod): p is a pointer to a Pod
validPodNSOption(p, ctrPod) ==
    IF IsNil(p) THEN ErrInvalidArg
    ELSE IF ctrPod = "" THEN ErrInvalidArg
    ELSE IF ctrPod # PodID(Deref(p)) THEN ErrInvalidArg
    ELSE Nil

\* Pod.InfraContainerID(): <<id, err>>
InfraContainerID(p) ==
    IF p.state.InfraContainerID = "" THEN <<"", ErrNoSuchCtr>>
    ELSE <<p.state.InfraContainerID, Nil>>

----------------------------------------------------------------------------
(* Container creation options.  Op(args, ctr) is the closure the option    *)
(* returns, applied to ctr.                                                *)

WithCDI(devices, ctr) ==
    IF ctr.valid THEN Fail(ErrCtrFinalized, ctr)
    ELSE Ok([ctr EXCEPT !.config.CDIDevices = devices])

WithStorageOpts(storageOpts, ctr) ==
    IF ctr.valid THEN Fail(ErrCtrFinalized, ctr)
    ELSE Ok([ctr EXCEPT !.config.StorageOpts = storageOpts])

WithMaxLogSize(limit, ctr) ==
    IF ctr.valid THEN Fail(ErrRuntimeFinalized, ctr)
    ELSE Ok([ctr EXCEPT !.config.LogSize = limit])

WithShmDir(dir, ctr) ==
    IF ctr.valid THEN Fail(ErrCtrFinalized, ctr)
    ELSE Ok([ctr EXCEPT !.config.ShmDir = dir])

WithSystemd(ctr) ==
    IF ctr.valid THEN Fail(ErrCtrFinalized, ctr)
    ELSE Ok([ctr EXCEPT !.config.Systemd = TRUE])

SdNotifyModeValues == <<"container", "conmon", "ignore">>

StringInSlice(s, sl) == \E i \in 1..Len(sl) : sl[i] = s

WithSdNotifyMode(mode, ctr) ==
    IF ctr.valid THEN Fail(ErrCtrFinalized, ctr)
    ELSE IF mode # "" /\ ~StringInSlice(ToLower(mode), SdNotifyModeValues)
         THEN Fail(ErrInvalidArg, ctr)
    ELSE Ok([ctr EXCEPT !.config.SdNotifyMode = mode])

WithShmSize(size, ctr) ==
    IF ctr.valid THEN Fail(ErrCtrFinalized, ctr)
    ELSE Ok([ctr EXCEPT !.config.ShmSize = size])

WithPrivileged(privileged, ctr) ==
    IF ctr.valid THEN Fail(ErrCtrFinalized, ctr)
    ELSE Ok([ctr EXCEPT !.config.Privileged = privileged])

WithSecLabels(labelOpts, ctr) ==
    IF ctr.valid THEN Fail(ErrCtrFinalized, ctr)
    ELSE Ok([ctr EXCEPT !.config.LabelOpts = labelOpts])

WithUser(user, ctr) ==
    IF ctr.valid THEN Fail(ErrCtrFinalized, ctr)
    ELSE Ok([ctr EXCEPT !.config.User = user])

WithRootFSFromImage(imageID, imageName, rawImageName, ctr) ==
    IF ctr.valid THEN Fail(ErrCtrFinalized, ctr)
    ELSE Ok([ctr EXCEPT !.config.RootfsImageID = imageID,
                        !.config.RootfsImageName = imageName,
                        !.config.RawImageName = rawImageName])

WithStdin(ctr) ==
    IF ctr.valid THEN Fail(ErrCtrFinalized, ctr)
    ELSE Ok([ctr EXCEPT !.config.Stdin = TRUE])

\* WithPod marking the container finalized when it succeeds.
WithPodFinalizing(pod, ctr) ==
    IF ctr.valid THEN Fail(ErrCtrFinalized, ctr)
    ELSE IF IsNil(pod) THEN Fail(ErrInvalidArg, ctr)
    ELSE Ok([ctr EXCEPT !.config.Pod = PodID(Deref(pod)), !.valid = TRUE])

\* (r *Runtime) WithPod(pod): pod is a pointer to a Pod
WithPod(pod, ctr) ==
    IF ctr.valid THEN Fail(ErrCtrFinalized, ctr)
    ELSE IF IsNil(pod) THEN Fail(ErrInvalidArg, ctr)
    ELSE Ok([ctr EXCEPT !.config.Pod = PodID(Deref(pod))])

WithLabels(labels, ctr) ==
    IF ctr.valid THEN Fail(ErrCtrFinalized, ctr)
    ELSE Ok([ctr EXCEPT !.config.Labels = labels])

WithName(name, ctr) ==
    IF ctr.valid THEN Fail(ErrCtrFinalized, ctr)
    ELSE IF ~NameRegexMatch(name) THEN Fail(RegexError, ctr)
    ELSE Ok([ctr EXCEPT !.config.Name = name])

\* syscall.Signal is a signed int; config.StopSignal is uint
WithStopSignal(signal, ctr) ==
    IF ctr.valid THEN Fail(ErrCtrFinalized, ctr)
    ELSE IF signal = 0 THEN Fail(ErrInvalidArg, ctr)
    ELSE IF signal > 64 THEN Fail(ErrInvalidArg, ctr)
    ELSE Ok([ctr EXCEPT !.config.StopSignal = Uint(signal)])

WithStopTimeout(timeout, ctr) ==
    IF ctr.valid THEN Fail(ErrCtrFinalized, ctr)
    ELSE Ok([ctr EXCEPT !.config.StopTimeout = timeout])

WithTimeout(timeout, ctr) ==
    IF ctr.valid THEN Fail(ErrCtrFinalized, ctr)
    ELSE Ok([ctr EXCEPT !.config.Timeout = timeout])

WithIDMappings(idmappings, ctr) ==
    IF ctr.valid THEN Fail(ErrCtrFinalized, ctr)
    ELSE Ok([ctr EXCEPT !.config.IDMappings = idmappings])

WithExitCommand(exitCommand, ctr) ==
    IF ctr.valid THEN Fail(ErrCtrFinalized, ctr)
    ELSE Ok([ctr EXCEPT !.config.ExitCommand = Append(exitCommand, CtrID(ctr))])

\* WithUTSNSFromPod storing whatever InfraContainerID returned.
WithUTSNSFromPodUnchecked(p, ctr) ==
    IF ctr.valid THEN Fail(ErrCtrFinalized, ctr)
    ELSE IF validPodNSOption(p, ctr.config.Pod) # Nil
         THEN Fail(validPodNSOption(p, ctr.config.Pod), ctr)
    ELSE Ok([ctr EXCEPT !.config.UTSNsCtr = InfraContainerID(Deref(p))[1]])

WithUTSNSFromPod(p, ctr) ==
    IF ctr.valid THEN Fail(ErrCtrFinalized, ctr)
    ELSE IF validPodNSOption(p, ctr.config.Pod) # Nil
         THEN Fail(validPodNSOption(p, ctr.config.Pod), ctr)
    ELSE IF InfraContainerID(Deref(p))[2] # Nil
         THEN Fail(InfraContainerID(Deref(p))[2], ctr)
    ELSE Ok([ctr EXCEPT !.config.UTSNsCtr = InfraContainerID(Deref(p))[1]])

WithIPCNSFrom(nsCtr, ctr) ==
    IF ctr.valid THEN Fail(ErrCtrFinalized, ctr)
    ELSE IF checkDependencyContainer(nsCtr, ctr) # Nil
         THEN Fail(checkDependencyContainer(nsCtr, ctr), ctr)
    ELSE Ok([ctr EXCEPT !.config.IPCNsCtr = CtrID(Deref(nsCtr))])

WithMountNSFrom(nsCtr, ctr) ==
    IF ctr.valid THEN Fail(ErrCtrFinalized, ctr)
    ELSE IF checkDependencyContainer(nsCtr, ctr) # Nil
         THEN Fail(checkDependencyContainer(nsCtr, ctr), ctr)
    ELSE Ok([ctr EXCEPT !.config.MountNsCtr = CtrID(Deref(nsCtr))])

WithNetNSFrom(nsCtr, ctr) ==
    IF ctr.valid THEN Fail(ErrCtrFinalized, ctr)
    ELSE IF checkDependencyContainer(nsCtr, ctr) # Nil
         THEN Fail(checkDependencyContainer(nsCtr, ctr), ctr)
    ELSE Ok([ctr EXCEPT !.config.NetNsCtr = CtrID(Deref(nsCtr))])

WithPIDNSFrom(nsCtr, ctr) ==
    IF ctr.valid THEN Fail(ErrCtrFinalized, ctr)
    ELSE IF checkDependencyContainer(nsCtr, ctr) # Nil
         THEN Fail(checkDependencyContainer(nsCtr, ctr), ctr)
    ELSE Ok([ctr EXCEPT !.config.PIDNsCtr = CtrID(Deref(nsCtr))])

WithAddCurrentUserPasswdEntry(ctr) ==
    IF ctr.valid THEN Fail(ErrCtrFinalized, ctr)
    ELSE Ok([ctr EXCEPT !.config.AddCurrentUserPasswdEntry = TRUE])

\* generate.AddLinuxUIDMapping / AddLinuxGIDMapping entry for one idtools.IDMap
LinuxIDMapping(m) ==
    [HostID |-> Uint32(m.HostID), ContainerID |-> Uint32(m.ContainerID),
     Size |-> Uint32(m.Size)]

\* JSONDeepCopy marshals a storage.IDMappingOptions (booleans, integers, strings
\* and slices of them) and unmarshals it into the same type: it returns nil
JSONDeepCopyOutcomes == {TRUE}

\* copyOK: whether JSONDeepCopy succeeds
WithUserNSFrom(nsCtr, copyOK, ctr) ==
    IF ctr.valid THEN Fail(ErrCtrFinalized, ctr)
    ELSE IF checkDependencyContainer(nsCtr, ctr) # Nil
         THEN Fail(checkDependencyContainer(nsCtr, ctr), ctr)
    ELSE LET c1 == [ctr EXCEPT !.config.UserNsCtr = CtrID(Deref(nsCtr))] IN
         IF ~copyOK THEN Fail(ErrJSON, c1)
         ELSE Ok([c1 EXCEPT
                    !.config.IDMappings = CtrIDMappings(Deref(nsCtr)),
                    !.config.Spec.UIDMappings =
                        SeqMap(LinuxIDMapping, Deref(nsCtr).config.IDMappings.UIDMap),
                    !.config.Spec.GIDMappings =
                        SeqMap(LinuxIDMapping, Deref(nsCtr).config.IDMappings.GIDMap)])

WithUTSNSFrom(nsCtr, ctr) ==
    IF ctr.valid THEN Fail(ErrCtrFinalized, ctr)
    ELSE IF checkDependencyContainer(nsCtr, ctr) # Nil
         THEN Fail(checkDependencyContainer(nsCtr, ctr), ctr)
    ELSE Ok([ctr EXCEPT !.config.UTSNsCtr = CtrID(Deref(nsCtr))])

\* WithCgroupNSFrom checking only that the referenced container is not nil.
WithCgroupNSFromAnyPod(nsCtr, ctr) ==
    IF ctr.valid THEN Fail(ErrCtrFinalized, ctr)
    ELSE IF IsNil(nsCtr) THEN Fail(ErrInvalidArg, ctr)
    ELSE Ok([ctr EXCEPT !.config.CgroupNsCtr = CtrID(Deref(nsCtr))])

WithCgroupNSFrom(nsCtr, ctr) ==
    IF ctr.valid THEN Fail(ErrCtrFinalized, ctr)
    ELSE IF checkDependencyContainer(nsCtr, ctr) # Nil
         THEN Fail(checkDependencyContainer(nsCtr, ctr), ctr)
    ELSE Ok([ctr EXCEPT !.config.CgroupNsCtr = CtrID(Deref(nsCtr))])

\* WithDependencyCtrs appending to the list already stored.
WithDependencyCtrsAppending(depCtrs, ctr) ==
    IF ctr.valid THEN Fail(ErrCtrFinalized, ctr)
    ELSE IF \E i \in 1..Len(depCtrs) : checkDependencyContainer(depCtrs[i], ctr) # Nil
         THEN Fail(ErrInvalidArg, ctr)
    ELSE Ok([ctr EXCEPT !.config.Dependencies =
                 @ \o [i \in 1..Len(depCtrs) |-> CtrID(Deref(depCtrs[i]))]])

\* depCtrs: a sequence of pointers to Container
WithDependencyCtrs(depCtrs, ctr) ==
    IF ctr.valid THEN Fail(ErrCtrFinalized, ctr)
    ELSE IF \E i \in 1..Len(depCtrs) : checkDependencyContainer(depCtrs[i], ctr) # Nil
         THEN LET k == CHOOSE i \in 1..Len(depCtrs) :
                         /\ checkDependencyContainer(depCtrs[i], ctr) # Nil
                         /\ \A j \in 1..(i - 1) :
                                checkDependencyContainer(depCtrs[j], ctr) = Nil
              IN Fail(checkDependencyContainer(depCtrs[k], ctr), ctr)
    ELSE Ok([ctr EXCEPT !.config.Dependencies = [i \in 1..Len(depCtrs) |-> CtrID(Deref(depCtrs[i]))]])

WithNetNS(portMappings, exposedPorts, postConfigureNetNS, netmode, networks, ctr) ==
    IF ctr.valid THEN Fail(ErrCtrFinalized, ctr)
    ELSE Ok([ctr EXCEPT !.config.PostConfigureNetNS = postConfigureNetNS,
                        !.config.NetMode = netmode,
                        !.config.CreateNetNS = TRUE,
                        !.config.PortMappings = portMappings,
                        !.config.ExposedPorts = exposedPorts,
                        !.config.Networks = networks])

WithStaticIP(ip, ctr) ==
    IF ctr.valid THEN Fail(ErrCtrFinalized, ctr)
    ELSE Ok([ctr EXCEPT !.config.StaticIP = ip])

WithNetworkOptions(options, ctr) ==
    IF ctr.valid THEN Fail(ErrCtrFinalized, ctr)
    ELSE Ok([ctr EXCEPT !.config.NetworkOptions = options])

WithStaticMAC(mac, ctr) ==
    IF ctr.valid THEN Fail(ErrCtrFinalized, ctr)
    ELSE Ok([ctr EXCEPT !.config.StaticMAC = mac])

\* define: log drivers
JournaldLogging == "journald"
KubernetesLogging == "k8s-file"
JSONLogging == "json-file"
NoLogging == "none"
PassthroughLogging == "passthrough"

\* WithLogDriver without the test for the empty string, the empty driver
\* counting as one of the accepted ones.
WithLogDriverEmptyAllowed(driver, ctr) ==
    IF ctr.valid THEN Fail(ErrCtrFinalized, ctr)
    ELSE IF driver \in {"", JournaldLogging, KubernetesLogging, JSONLogging, NoLogging,
                        PassthroughLogging}
         THEN Ok([ctr EXCEPT !.config.LogDriver = driver])
    ELSE Fail(ErrInvalidArg, ctr)

WithLogDriver(driver, ctr) ==
    IF ctr.valid THEN Fail(ErrCtrFinalized, ctr)
    ELSE IF driver = "" THEN Fail(ErrInvalidArg, ctr)
    ELSE IF driver \in {JournaldLogging, KubernetesLogging, JSONLogging, NoLogging,
                        PassthroughLogging}
         THEN Ok([ctr EXCEPT !.config.LogDriver = driver])
    ELSE Fail(ErrInvalidArg, ctr)

WithLogPath(path, ctr) ==
    IF ctr.valid THEN Fail(ErrCtrFinalized, ctr)
    ELSE IF path = "" THEN Fail(ErrInvalidArg, ctr)
    ELSE Ok([ctr EXCEPT !.config.LogPath = path])

WithLogTag(tag, ctr) ==
    IF ctr.valid THEN Fail(ErrCtrFinalized, ctr)
    ELSE IF tag = "" THEN Fail(ErrInvalidArg, ctr)
    ELSE Ok([ctr EXCEPT !.config.LogTag = tag])

cgroupSplit == "split"

\* WithCgroupsMode treating "disabled" like the other modes.
WithCgroupsModeFlagless(mode, ctr) ==
    IF ctr.valid THEN Fail(ErrCtrFinalized, ctr)
    ELSE IF mode \in {"disabled", "enabled", "no-conmon", cgroupSplit}
         THEN Ok([ctr EXCEPT !.config.CgroupsMode = mode])
    ELSE Fail(ErrInvalidArg, ctr)

WithCgroupsMode(mode, ctr) ==
    IF ctr.valid THEN Fail(ErrCtrFinalized, ctr)
    ELSE IF mode = "disabled"
         THEN Ok([ctr EXCEPT !.config.NoCgroups = TRUE, !.config.CgroupsMode = mode])
    ELSE IF mode \in {"enabled", "no-conmon", cgroupSplit}
         THEN Ok([ctr EXCEPT !.config.CgroupsMode = mode])
    ELSE Fail(ErrInvalidArg, ctr)

WithCgroupParent(parent, ctr) ==
    IF ctr.valid THEN Fail(ErrCtrFinalized, ctr)
    ELSE IF parent = "" THEN Fail(ErrInvalidArg, ctr)
    ELSE Ok([ctr EXCEPT !.config.CgroupParent = parent])

WithDNSSearch(searchDomains, ctr) ==
    IF ctr.valid THEN Fail(ErrCtrFinalized, ctr)
    ELSE Ok([ctr EXCEPT !.config.DNSSearch = searchDomains])

\* WithDNS appending each address as soon as it has parsed.
WithDNSEager(dnsServers, ctr) ==
    IF ctr.valid THEN Fail(ErrCtrFinalized, ctr)
    ELSE IF \E i \in 1..Len(dnsServers) : ParseIP(dnsServers[i]) = ""
         THEN LET k == CHOOSE i \in 1..Len(dnsServers) :
                         /\ ParseIP(dnsServers[i]) = ""
                         /\ \A j \in 1..(i - 1) : ParseIP(dnsServers[j]) # ""
              IN Fail(ErrInvalidArg,
                      [ctr EXCEPT !.config.DNSServer =
                           @ \o [j \in 1..(k - 1) |-> ParseIP(dnsServers[j])]])
    ELSE Ok([ctr EXCEPT !.config.DNSServer = @ \o SeqMap(ParseIP, dnsServers)])

WithDNS(dnsServers, ctr) ==
    IF ctr.valid THEN Fail(ErrCtrFinalized, ctr)
    ELSE IF \E i \in 1..Len(dnsServers) : ParseIP(dnsServers[i]) = ""
         THEN Fail(ErrInvalidArg, ctr)
    ELSE Ok([ctr EXCEPT !.config.DNSServer = @ \o SeqMap(ParseIP, dnsServers)])

\* WithDNSOption without the test of UseImageResolvConf.
WithDNSOptionUnchecked(dnsOptions, ctr) ==
    IF ctr.valid THEN Fail(ErrCtrFinalized, ctr)
    ELSE Ok([ctr EXCEPT !.config.DNSOption = @ \o dnsOptions])

WithDNSOption(dnsOptions, ctr) ==
    IF ctr.valid THEN Fail(ErrCtrFinalized, ctr)
    ELSE IF ctr.config.UseImageResolvConf THEN Fail(ErrInvalidArg, ctr)
    ELSE Ok([ctr EXCEPT !.config.DNSOption = @ \o dnsOptions])

WithHosts(hosts, ctr) ==
    IF ctr.valid THEN Fail(ErrCtrFinalized, ctr)
    ELSE Ok([ctr EXCEPT !.config.HostAdd = hosts])

WithConmonPidFile(path, ctr) ==
    IF ctr.valid THEN Fail(ErrCtrFinalized, ctr)
    ELSE Ok([ctr EXCEPT !.config.ConmonPidFile = path])

WithGroups(groups, ctr) ==
    IF ctr.valid THEN Fail(ErrCtrFinalized, ctr)
    ELSE Ok([ctr EXCEPT !.config.Groups = groups])

\* volumes: a pointer, NilRef for the nil slice
WithUserVolumes(volumes, ctr) ==
    IF ctr.valid THEN Fail(ErrCtrFinalized, ctr)
    ELSE IF IsNil(volumes) THEN Fail(ErrInvalidArg, ctr)
    ELSE Ok([ctr EXCEPT !.config.UserVolumes = Deref(volumes)])

WithEntrypoint(entrypoint, ctr) ==
    IF ctr.valid THEN Fail(ErrCtrFinalized, ctr)
    ELSE Ok([ctr EXCEPT !.config.Entrypoint = entrypoint])

WithCommand(command, ctr) ==
    IF ctr.valid THEN Fail(ErrCtrFinalized, ctr)
    ELSE Ok([ctr EXCEPT !.config.Command = command])

WithRootFS(rootfs, overlay, ctr) ==
    IF ctr.valid THEN Fail(ErrCtrFinalized, ctr)
    ELSE IF ~StatOK(rootfs) THEN Fail(ErrStat, ctr)
    ELSE Ok([ctr EXCEPT !.config.Rootfs = rootfs, !.config.RootfsOverlay = overlay])

WithCtrNamespace(ns, ctr) ==
    IF ctr.valid THEN Fail(ErrCtrFinalized, ctr)
    ELSE Ok([ctr EXCEPT !.config.Namespace = ns])

\* WithUseImageResolvConf refusing a container that has DNS options.
WithUseImageResolvConfChecked(ctr) ==
    IF ctr.valid THEN Fail(ErrCtrFinalized, ctr)
    ELSE IF ctr.config.DNSOption # <<>> THEN Fail(ErrInvalidArg, ctr)
    ELSE Ok([ctr EXCEPT !.config.UseImageResolvConf = TRUE])

WithUseImageResolvConf(ctr) ==
    IF ctr.valid THEN Fail(ErrCtrFinalized, ctr)
    ELSE Ok([ctr EXCEPT !.config.UseImageResolvConf = TRUE])

WithUseImageHosts(ctr) ==
    IF ctr.valid THEN Fail(ErrCtrFinalized, ctr)
    ELSE Ok([ctr EXCEPT !.config.UseImageHosts = TRUE])

\* define: restart policies
RestartPolicyNone == ""
RestartPolicyNo == "no"
RestartPolicyOnFailure == "on-failure"
RestartPolicyAlways == "always"
RestartPolicyUnlessStopped == "unless-stopped"

\* WithRestartPolicy storing the policy without validating it.
WithRestartPolicyUnchecked(policy, ctr) ==
    IF ctr.valid THEN Fail(ErrCtrFinalized, ctr)
    ELSE Ok([ctr EXCEPT !.config.RestartPolicy = policy])

WithRestartPolicy(policy, ctr) ==
    IF ctr.valid THEN Fail(ErrCtrFinalized, ctr)
    ELSE IF policy \in {RestartPolicyNone, RestartPolicyNo, RestartPolicyOnFailure,
                        RestartPolicyAlways, RestartPolicyUnlessStopped}
         THEN Ok([ctr EXCEPT !.config.RestartPolicy = policy])
    ELSE Fail(ErrInvalidArg, ctr)

WithRestartRetries(tries, ctr) ==
    IF ctr.valid THEN Fail(ErrCtrFinalized, ctr)
    ELSE Ok([ctr EXCEPT !.config.RestartRetries = tries])

\* index of the first element of s that P rejects, Len(s) + 1 if there is none
FirstBad(P(_), s) ==
    IF \E i \in 1..Len(s) : ~P(s[i])
    THEN CHOOSE i \in 1..Len(s) : ~P(s[i]) /\ \A j \in 1..(i - 1) : P(s[j])
    ELSE Len(s) + 1

NamedVolumeOK(vol) == ProcessOptionsOK(vol.Options)
NamedVolumeOf(vol) ==
    [Name |-> vol.Name, Dest |-> vol.Dest, Options |-> ProcessOptions(vol.Options)]

\* the volumes before the first one whose options fail are appended
WithNamedVolumes(volumes, ctr) ==
    IF ctr.valid THEN Fail(ErrCtrFinalized, ctr)
    ELSE LET k == FirstBad(NamedVolumeOK, volumes)
             c1 == [ctr EXCEPT !.config.NamedVolumes =
                        @ \o SeqMap(NamedVolumeOf, SubSeq(volumes, 1, k - 1))]
         IN IF k <= Len(volumes) THEN Fail(ErrInvalidArg, c1) ELSE Ok(c1)

WithOverlayVolumes(volumes, ctr) ==
    IF ctr.valid THEN Fail(ErrCtrFinalized, ctr)
    ELSE Ok([ctr EXCEPT !.config.OverlayVolumes = @ \o volumes])

WithImageVolumes(volumes, ctr) ==
    IF ctr.valid THEN Fail(ErrCtrFinalized, ctr)
    ELSE Ok([ctr EXCEPT !.config.ImageVolumes = @ \o volumes])

WithHealthCheck(healthCheck, ctr) ==
    IF ctr.valid THEN Fail(ErrCtrFinalized, ctr)
    ELSE Ok([ctr EXCEPT !.config.HealthCheckConfig = healthCheck])

WithPreserveFDs(fd, ctr) ==
    IF ctr.valid THEN Fail(ErrCtrFinalized, ctr)
    ELSE Ok([ctr EXCEPT !.config.PreserveFDs = fd])

WithCreateCommand(cmd, ctr) ==
    IF ctr.valid THEN Fail(ErrCtrFinalized, ctr)
    ELSE Ok([ctr EXCEPT !.config.CreateCommand = cmd])

withIsInfra(ctr) ==
    IF ctr.valid THEN Fail(ErrCtrFinalized, ctr)
    ELSE Ok([ctr EXCEPT !.config.IsInfra = TRUE])

WithCreateWorkingDir(ctr) ==
    IF ctr.valid THEN Fail(ErrCtrFinalized, ctr)
    ELSE Ok([ctr EXCEPT !.config.CreateWorkingDir = TRUE])

WithNetworkAliases(aliases, ctr) ==
    IF ctr.valid THEN Fail(ErrCtrFinalized, ctr)
    ELSE Ok([ctr EXCEPT !.config.NetworkAliases = aliases])

\* filepath.Join of two clean elements
FilepathJoin(a, b) ==
    IF a = "" THEN b ELSE IF b = "" THEN a ELSE a \o "/" \o b

WithTimezone(path, ctr) ==
    IF ctr.valid THEN Fail(ErrCtrFinalized, ctr)
    ELSE IF path # "local" /\ ~ZoneExists(FilepathJoin("/usr/share/zoneinfo", path))
         THEN Fail(ErrStat, ctr)
    ELSE IF path # "local" /\ StatIsDir(FilepathJoin("/usr/share/zoneinfo", path))
         THEN Fail(ErrPlain, ctr)
    ELSE Ok([ctr EXCEPT !.config.Timezone = path])

WithUmask(umask, ctr) ==
    IF ctr.valid THEN Fail(ErrCtrFinalized, ctr)
    ELSE IF ~UmaskRegexMatch(umask) THEN Fail(ErrInvalidArg, ctr)
    ELSE Ok([ctr EXCEPT !.config.Umask = umask])

WithSecrets(containerSecrets, ctr) ==
    IF ctr.valid THEN Fail(ErrCtrFinalized, ctr)
    ELSE Ok([ctr EXCEPT !.config.Secrets = containerSecrets])

EnvSecretOK(e) == SecretLookupOK(e[2])

\* envSecrets: the map as a sequence of <<target, source>> in the order the range
\* statement visits it; managerOK: whether ctr.runtime.SecretsManager() succeeds.
\* The map is replaced before the finalization check.
WithEnvSecrets(envSecrets, managerOK, ctr) ==
    LET c0 == [ctr EXCEPT !.config.EnvSecrets = {}]
        k == FirstBad(EnvSecretOK, envSecrets)
        c1 == [c0 EXCEPT !.config.EnvSecrets =
                   {<<envSecrets[i][1], SecretOf(envSecrets[i][2])>> : i \in 1..(k - 1)}]
    IN IF ctr.valid THEN Fail(ErrCtrFinalized, c0)
       ELSE IF ~managerOK THEN Fail(ErrSecret, c0)
       ELSE IF k <= Len(envSecrets) THEN Fail(ErrSecret, c1)
       ELSE Ok(c1)

WithPidFile(pidFile, ctr) ==
    IF ctr.valid THEN Fail(ErrCtrFinalized, ctr)
    ELSE Ok([ctr EXCEPT !.config.PidFile = pidFile])

\* define: init container types
OneShotInitContainer == "once"
AlwaysInitContainer == "always"

WithInitCtrType(containerType, ctr) ==
    IF ctr.valid THEN Fail(ErrCtrFinalized, ctr)
    ELSE IF containerType = OneShotInitContainer \/ containerType = AlwaysInitContainer
         THEN Ok([ctr EXCEPT !.config.InitContainerType = containerType])
    ELSE Fail(ErrPlain, ctr)

WithHostDevice(dev, ctr) ==
    IF ctr.valid THEN Fail(ErrCtrFinalized, ctr)
    ELSE Ok([ctr EXCEPT !.config.DeviceHostSrc = dev])

WithVolatile(ctr) ==
    IF ctr.valid THEN Fail(ErrCtrFinalized, ctr)
    ELSE Ok([ctr EXCEPT !.config.Volatile = TRUE])

----------------------------------------------------------------------------
(* Volume creation options *)

ZeroVolumeConfig ==
    [Name |-> <<>>, Driver |-> "", Labels |-> {}, Options |-> {},
     UID |-> 0, GID |-> 0, Size |-> 0, Inodes |-> 0, IsAnon |-> FALSE]

WithVolumeName(name, volume) ==
    IF volume.valid THEN Fail(ErrVolumeFinalized, volume)
    ELSE IF ~NameRegexMatch(name) THEN Fail(RegexError, volume)
    ELSE Ok([volume EXCEPT !.config.Name = name])

WithVolumeDriver(driver, volume) ==
    IF volume.valid THEN Fail(ErrVolumeFinalized, volume)
    ELSE Ok([volume EXCEPT !.config.Driver = driver])

WithVolumeLabels(labels, volume) ==
    IF volume.valid THEN Fail(ErrVolumeFinalized, volume)
    ELSE Ok([volume EXCEPT !.config.Labels = labels])

WithVolumeOptions(options, volume) ==
    IF volume.valid THEN Fail(ErrVolumeFinalized, volume)
    ELSE Ok([volume EXCEPT !.config.Options = options])

WithVolumeUID(uid, volume) ==
    IF volume.valid THEN Fail(ErrVolumeFinalized, volume)
    ELSE Ok([volume EXCEPT !.config.UID = uid])

WithVolumeSize(size, volume) ==
    IF volume.valid THEN Fail(ErrVolumeFinalized, volume)
    ELSE Ok([volume EXCEPT !.config.Size = size])

WithVolumeInodes(inodes, volume) ==
    IF volume.valid THEN Fail(ErrVolumeFinalized, volume)
    ELSE Ok([volume EXCEPT !.config.Inodes = inodes])

WithVolumeGID(gid, volume) ==
    IF volume.valid THEN Fail(ErrVolumeFinalized, volume)
    ELSE Ok([volume EXCEPT !.config.GID = gid])

\* WithVolumeNoChown without its guard.
WithVolumeNoChownUnguarded(volume) ==
    Ok([volume EXCEPT !.state.NeedsChown = FALSE])

WithVolumeNoChown(volume) ==
    IF volume.valid THEN Fail(ErrVolumeFinalized, volume)
    ELSE Ok([volume EXCEPT !.state.NeedsChown = FALSE])

withSetAnon(volume) ==
    IF volume.valid THEN Fail(ErrVolumeFinalized, volume)
    ELSE Ok([volume EXCEPT !.config.IsAnon = TRUE])

----------------------------------------------------------------------------
(* Pod creation options *)

ZeroPodConfig ==
    [ID |-> "", Name |-> <<>>, Hostname |-> <<>>, Labels |-> {}, CgroupParent |-> "",
     Namespace |-> "", CreateCommand |-> <<>>, HasInfra |-> FALSE,
     UsePodCgroup |-> FALSE, UsePodIPC |-> FALSE, UsePodNet |-> FALSE,
     UsePodMount |-> FALSE, UsePodUser |-> FALSE, UsePodPID |-> FALSE,
     UsePodUTS |-> FALSE, UsePodCgroupNS |-> FALSE]

WithPodCreateCommand(createCmd, pod) ==
    IF pod.valid THEN Fail(ErrPodFinalized, pod)
    ELSE Ok([pod EXCEPT !.config.CreateCommand = createCmd])

WithPodName(name, pod) ==
    IF pod.valid THEN Fail(ErrPodFinalized, pod)
    ELSE IF ~NameRegexMatch(name) THEN Fail(RegexError, pod)
    ELSE Ok([pod EXCEPT !.config.Name = name])

WithPodHostname(hostname, pod) ==
    IF pod.valid THEN Fail(ErrPodFinalized, pod)
    ELSE IF ~NameRegexMatch(hostname) THEN Fail(RegexError, pod)
    ELSE Ok([pod EXCEPT !.config.Hostname = hostname])

\* WithInfraConmonPidFile with the assignment moved above the guard.
WithInfraConmonPidFileUnguarded(path, spec, pod) ==
    IF pod.valid
    THEN [err |-> ErrPodFinalized, ent |-> pod, spec |-> [spec EXCEPT !.ConmonPidFile = path]]
    ELSE [err |-> Nil, ent |-> pod, spec |-> [spec EXCEPT !.ConmonPidFile = path]]

\* spec: the *specgen.SpecGenerator the option was created with; the result
\* carries it as the closure leaves it
WithInfraConmonPidFile(path, spec, pod) ==
    IF pod.valid THEN [err |-> ErrPodFinalized, ent |-> pod, spec |-> spec]
    ELSE [err |-> Nil, ent |-> pod, spec |-> [spec EXCEPT !.ConmonPidFile = path]]

WithPodLabels(labels, pod) ==
    IF pod.valid THEN Fail(ErrPodFinalized, pod)
    ELSE Ok([pod EXCEPT !.config.Labels = labels])

WithPodCgroupParent(path, pod) ==
    IF pod.valid THEN Fail(ErrPodFinalized, pod)
    ELSE Ok([pod EXCEPT !.config.CgroupParent = path])

WithPodCgroups(pod) ==
    IF pod.valid THEN Fail(ErrPodFinalized, pod)
    ELSE Ok([pod EXCEPT !.config.UsePodCgroup = TRUE])

WithPodNamespace(ns, pod) ==
    IF pod.valid THEN Fail(ErrPodFinalized, pod)
    ELSE Ok([pod EXCEPT !.config.Namespace = ns])

WithPodIPC(pod) ==
    IF pod.valid THEN Fail(ErrPodFinalized, pod)
    ELSE Ok([pod EXCEPT !.config.UsePodIPC = TRUE])

WithPodNet(pod) ==
    IF pod.valid THEN Fail(ErrPodFinalized, pod)
    ELSE Ok([pod EXCEPT !.config.UsePodNet = TRUE])

WithPodMount(pod) ==
    IF pod.valid THEN Fail(ErrPodFinalized, pod)
    ELSE Ok([pod EXCEPT !.config.UsePodMount = TRUE])

WithPodUser(pod) ==
    IF pod.valid THEN Fail(ErrPodFinalized, pod)
    ELSE Ok([pod EXCEPT !.config.UsePodUser = TRUE])

WithPodPID(pod) ==
    IF pod.valid THEN Fail(ErrPodFinalized, pod)
    ELSE Ok([pod EXCEPT !.config.UsePodPID = TRUE])

WithPodUTS(pod) ==
    IF pod.valid THEN Fail(ErrPodFinalized, pod)
    ELSE Ok([pod EXCEPT !.config.UsePodUTS = TRUE])

WithPodCgroup(pod) ==
    IF pod.valid THEN Fail(ErrPodFinalized, pod)
    ELSE Ok([pod EXCEPT !.config.UsePodCgroupNS = TRUE])

WithInfraContainer(pod) ==
    IF pod.valid THEN Fail(ErrPodFinalized, pod)
    ELSE Ok([pod EXCEPT !.config.HasInfra = TRUE])

----------------------------------------------------------------------------
(* Runtime creation options *)

ZeroEngineConfig ==
    [ImageDefaultTransport |-> "", SignaturePolicyPath |-> "", StateType |-> "",
     OCIRuntime |-> "", ConmonPath |-> <<>>, ConmonEnvVars |-> <<>>,
     NetworkCmdPath |-> "", CgroupManager |-> "",
     StaticDir |-> "", StaticDirSet |-> FALSE, HooksDir |-> <<>>,
     TmpDir |-> "", TmpDirSet |-> FALSE, NoPivotRoot |-> FALSE, Namespace |-> "",
     VolumePath |-> "", VolumePathSet |-> FALSE,
     InfraImage |-> "", InfraCommand |-> "",
     EventsLogger |-> "", EventsLogFilePath |-> "", SDNotify |-> FALSE]

ZeroRuntimeConfig ==
    [Engine |-> ZeroEngineConfig,
     Containers |-> [DefaultMountsFile |-> ""],
     Network |-> [NetworkConfigDir |-> "", CNIPluginDirs |-> <<>>]]

ZeroStoreOptions ==
    [RunRoot |-> "", GraphRoot |-> "", GraphDriverName |-> "",
     GraphDriverOptions |-> NilRef, UIDMap |-> NilRef, GIDMap |-> NilRef]

ZeroStorageSet ==
    [RunRootSet |-> FALSE, GraphRootSet |-> FALSE, StaticDirSet |-> FALSE,
     VolumePathSet |-> FALSE, GraphDriverNameSet |-> FALSE]

ZeroRuntime ==
    [valid |-> FALSE, config |-> ZeroRuntimeConfig,
     storageConfig |-> ZeroStoreOptions, storageSet |-> ZeroStorageSet,
     noStore |-> FALSE, imageContext |-> NilRef,
     doRenumber |-> FALSE, doMigrate |-> FALSE, migrateRuntime |-> "",
     runtimeFlags |-> <<>>]

\* storage.DefaultStoreOptions(rootless, uid) on the host of the model
HostStoreOptions ==
    [RunRoot |-> "/run/containers/storage", GraphRoot |-> "/var/lib/containers/storage"]

\* parse.GetTempDir()
GetTempDir == "/var/tmp"

\* WithStorageConfig filling in the roots only when a root was supplied.
WithStorageConfigRootsOnly(config, defaultsOK, rt) ==
    IF rt.valid THEN Fail(ErrRuntimeFinalized, rt)
    ELSE
    LET r1 == IF config.RunRoot # ""
              THEN [rt EXCEPT !.storageConfig.RunRoot = config.RunRoot,
                              !.storageSet.RunRootSet = TRUE]
              ELSE rt
        r2 == IF config.GraphRoot # ""
              THEN [r1 EXCEPT
                      !.storageConfig.GraphRoot = config.GraphRoot,
                      !.storageSet.GraphRootSet = TRUE,
                      !.config.Engine.StaticDir = FilepathJoin(config.GraphRoot, "libpod"),
                      !.storageSet.StaticDirSet = TRUE,
                      !.config.Engine.VolumePath = FilepathJoin(config.GraphRoot, "volumes"),
                      !.storageSet.VolumePathSet = TRUE]
              ELSE r1
        r3 == IF config.GraphDriverName # ""
              THEN [r2 EXCEPT !.storageConfig.GraphDriverName = config.GraphDriverName,
                              !.storageSet.GraphDriverNameSet = TRUE]
              ELSE r2
        r4 == IF ~IsNil(config.GraphDriverOptions)
              THEN [r3 EXCEPT !.storageConfig.GraphDriverOptions = config.GraphDriverOptions]
              ELSE r3
        r5 == IF ~IsNil(config.UIDMap)
              THEN [r4 EXCEPT !.storageConfig.UIDMap = config.UIDMap]
              ELSE r4
        r6 == IF ~IsNil(config.GIDMap)
              THEN [r5 EXCEPT !.storageConfig.GIDMap = config.GIDMap]
              ELSE r5
        setField == config.RunRoot # "" \/ config.GraphRoot # ""
        r7 == IF r6.storageConfig.GraphRoot = ""
              THEN [r6 EXCEPT !.storageConfig.GraphRoot = HostStoreOptions.GraphRoot]
              ELSE r6
        r8 == IF r7.storageConfig.RunRoot = ""
              THEN [r7 EXCEPT !.storageConfig.RunRoot = HostStoreOptions.RunRoot]
              ELSE r7
    IN IF ~setField THEN Ok(r6)
       ELSE IF ~defaultsOK THEN Fail(ErrStoreDefaults, r6)
       ELSE Ok(r8)

\* config: a storage.StoreOptions (slices as pointers, NilRef for nil);
\* defaultsOK: whether storage.DefaultStoreOptions succeeds
WithStorageConfig(config, defaultsOK, rt) ==
    IF rt.valid THEN Fail(ErrRuntimeFinalized, rt)
    ELSE
    LET r1 == IF config.RunRoot # ""
              THEN [rt EXCEPT !.storageConfig.RunRoot = config.RunRoot,
                              !.storageSet.RunRootSet = TRUE]
              ELSE rt
        r2 == IF config.GraphRoot # ""
              THEN [r1 EXCEPT
                      !.storageConfig.GraphRoot = config.GraphRoot,
                      !.storageSet.GraphRootSet = TRUE,
                      !.config.Engine.StaticDir = FilepathJoin(config.GraphRoot, "libpod"),
                      !.storageSet.StaticDirSet = TRUE,
                      !.config.Engine.VolumePath = FilepathJoin(config.GraphRoot, "volumes"),
                      !.storageSet.VolumePathSet = TRUE]
              ELSE r1
        graphDriverChanged == config.GraphDriverName # ""
        r3 == IF graphDriverChanged
              THEN [r2 EXCEPT !.storageConfig.GraphDriverName = config.GraphDriverName,
                              !.storageSet.GraphDriverNameSet = TRUE]
              ELSE r2
        r4 == IF ~IsNil(config.GraphDriverOptions)
              THEN [r3 EXCEPT !.storageConfig.GraphDriverOptions = config.GraphDriverOptions]
              ELSE r3
        r5 == IF ~IsNil(config.UIDMap)
              THEN [r4 EXCEPT !.storageConfig.UIDMap = config.UIDMap]
              ELSE r4
        r6 == IF ~IsNil(config.GIDMap)
              THEN [r5 EXCEPT !.storageConfig.GIDMap = config.GIDMap]
              ELSE r5
        setField == \/ config.RunRoot # ""
                    \/ config.GraphRoot # ""
                    \/ graphDriverChanged
                    \/ ~IsNil(config.GraphDriverOptions)
        r7 == IF r6.storageConfig.GraphRoot = ""
              THEN [r6 EXCEPT !.storageConfig.GraphRoot = HostStoreOptions.GraphRoot]
              ELSE r6
        r8 == IF r7.storageConfig.RunRoot = ""
              THEN [r7 EXCEPT !.storageConfig.RunRoot = HostStoreOptions.RunRoot]
              ELSE r7
    IN IF ~setField THEN Ok(r6)
       ELSE IF ~defaultsOK THEN Fail(ErrStoreDefaults, r6)
       ELSE Ok(r8)

WithDefaultTransport(defaultTransport, rt) ==
    IF rt.valid THEN Fail(ErrRuntimeFinalized, rt)
    ELSE Ok([rt EXCEPT !.config.Engine.ImageDefaultTransport = defaultTransport])

WithSignaturePolicy(path, rt) ==
    IF rt.valid THEN Fail(ErrRuntimeFinalized, rt)
    ELSE Ok([rt EXCEPT !.config.Engine.SignaturePolicyPath = path])

\* config.InvalidStateStore
InvalidStateStore == "InvalidStateStore"

WithStateType(storeType, rt) ==
    IF rt.valid THEN Fail(ErrRuntimeFinalized, rt)
    ELSE IF storeType = InvalidStateStore THEN Fail(ErrInvalidArg, rt)
    ELSE Ok([rt EXCEPT !.config.Engine.StateType = storeType])

WithOCIRuntime(runtime, rt) ==
    IF rt.valid THEN Fail(ErrRuntimeFinalized, rt)
    ELSE IF runtime = "" THEN Fail(ErrInvalidArg, rt)
    ELSE Ok([rt EXCEPT !.config.Engine.OCIRuntime = runtime])

WithConmonPath(path, rt) ==
    IF rt.valid THEN Fail(ErrRuntimeFinalized, rt)
    ELSE IF path = "" THEN Fail(ErrInvalidArg, rt)
    ELSE Ok([rt EXCEPT !.config.Engine.ConmonPath = <<path>>])

WithConmonEnv(environment, rt) ==
    IF rt.valid THEN Fail(ErrRuntimeFinalized, rt)
    ELSE Ok([rt EXCEPT !.config.Engine.ConmonEnvVars = environment])

WithNetworkCmdPath(path, rt) ==
    IF rt.valid THEN Fail(ErrRuntimeFinalized, rt)
    ELSE Ok([rt EXCEPT !.config.Engine.NetworkCmdPath = path])

\* config: cgroup managers
CgroupfsCgroupsManager == "cgroupfs"
SystemdCgroupsManager == "systemd"

WithCgroupManager(manager, rt) ==
    IF rt.valid THEN Fail(ErrRuntimeFinalized, rt)
    ELSE IF manager # CgroupfsCgroupsManager /\ manager # SystemdCgroupsManager
         THEN Fail(ErrInvalidArg, rt)
    ELSE Ok([rt EXCEPT !.config.Engine.CgroupManager = manager])

WithStaticDir(dir, rt) ==
    IF rt.valid THEN Fail(ErrRuntimeFinalized, rt)
    ELSE Ok([rt EXCEPT !.config.Engine.StaticDir = dir,
                       !.config.Engine.StaticDirSet = TRUE])

\* no finalization check
WithRegistriesConf(path, rt) ==
    IF ~StatOK(path) THEN Fail(ErrStat, rt)
    ELSE LET ctx == IF IsNil(rt.imageContext)
                    THEN [BigFilesTemporaryDir |-> GetTempDir,
                          SystemRegistriesConfPath |-> ""]
                    ELSE Deref(rt.imageContext)
         IN Ok([rt EXCEPT !.imageContext =
                    Ptr([ctx EXCEPT !.SystemRegistriesConfPath = path])])

WithHooksDir(hooksDirs, rt) ==
    IF rt.valid THEN Fail(ErrRuntimeFinalized, rt)
    ELSE IF \E i \in 1..Len(hooksDirs) : hooksDirs[i] = "" THEN Fail(ErrInvalidArg, rt)
    ELSE Ok([rt EXCEPT !.config.Engine.HooksDir = hooksDirs])

WithDefaultMountsFile(mountsFile, rt) ==
    IF rt.valid THEN Fail(ErrRuntimeFinalized, rt)
    ELSE IF mountsFile = "" THEN Fail(ErrInvalidArg, rt)
    ELSE Ok([rt EXCEPT !.config.Containers.DefaultMountsFile = mountsFile])

WithTmpDir(dir, rt) ==
    IF rt.valid THEN Fail(ErrRuntimeFinalized, rt)
    ELSE Ok([rt EXCEPT !.config.Engine.TmpDir = dir, !.config.Engine.TmpDirSet = TRUE])

\* no finalization check
WithNoStore(rt) ==
    Ok([rt EXCEPT !.noStore = TRUE])

WithNoPivotRoot(rt) ==
    IF rt.valid THEN Fail(ErrRuntimeFinalized, rt)
    ELSE Ok([rt EXCEPT !.config.Engine.NoPivotRoot = TRUE])

WithCNIConfigDir(dir, rt) ==
    IF rt.valid THEN Fail(ErrRuntimeFinalized, rt)
    ELSE Ok([rt EXCEPT !.config.Network.NetworkConfigDir = dir])

WithCNIPluginDir(dir, rt) ==
    IF rt.valid THEN Fail(ErrRuntimeFinalized, rt)
    ELSE Ok([rt EXCEPT !.config.Network.CNIPluginDirs = <<dir>>])

WithNamespace(ns, rt) ==
    IF rt.valid THEN Fail(ErrRuntimeFinalized, rt)
    ELSE Ok([rt EXCEPT !.config.Engine.Namespace = ns])

WithVolumePath(volPath, rt) ==
    IF rt.valid THEN Fail(ErrRuntimeFinalized, rt)
    ELSE Ok([rt EXCEPT !.config.Engine.VolumePath = volPath,
                       !.config.Engine.VolumePathSet = TRUE])

WithDefaultInfraImage(img, rt) ==
    IF rt.valid THEN Fail(ErrRuntimeFinalized, rt)
    ELSE Ok([rt EXCEPT !.config.Engine.InfraImage = img])

WithDefaultInfraCommand(cmd, rt) ==
    IF rt.valid THEN Fail(ErrRuntimeFinalized, rt)
    ELSE Ok([rt EXCEPT !.config.Engine.InfraCommand = cmd])

\* writes InfraImage
WithDefaultInfraName(name, rt) ==
    IF rt.valid THEN Fail(ErrRuntimeFinalized, rt)
    ELSE Ok([rt EXCEPT !.config.Engine.InfraImage = name])

WithRenumber(rt) ==
    IF rt.valid THEN Fail(ErrRuntimeFinalized, rt)
    ELSE Ok([rt EXCEPT !.doRenumber = TRUE])

WithMigrate(rt) ==
    IF rt.valid THEN Fail(ErrRuntimeFinalized, rt)
    ELSE Ok([rt EXCEPT !.doMigrate = TRUE])

WithMigrateRuntime(requestedRuntime, rt) ==
    IF rt.valid THEN Fail(ErrRuntimeFinalized, rt)
    ELSE IF requestedRuntime = "" THEN Fail(ErrInvalidArg, rt)
    ELSE Ok([rt EXCEPT !.migrateRuntime = requestedRuntime])

\* events.IsValidEventer
IsValidEventer(logger) == logger \in {"file", "journald"}

WithEventsLogger(logger, rt) ==
    IF rt.valid THEN Fail(ErrRuntimeFinalized, rt)
    ELSE IF ~IsValidEventer(logger) THEN Fail(ErrInvalidArg, rt)
    ELSE Ok([rt EXCEPT
               !.config.Engine.EventsLogger = logger,
               !.config.Engine.EventsLogFilePath =
                   FilepathJoin(FilepathJoin(rt.config.Engine.TmpDir, "events"),
                                "events.log")])

\* no finalization check
WithEnableSDNotify(rt) ==
    Ok([rt EXCEPT !.config.Engine.SDNotify = TRUE])

WithRuntimeFlags(runtimeFlags, rt) ==
    IF rt.valid THEN Fail(ErrRuntimeFinalized, rt)
    ELSE Ok([rt EXCEPT !.runtimeFlags = runtimeFlags])

----------------------------------------------------------------------------
(* The entities of the model *)

\* IDs
IdA1 == "ctrA1"
IdA2 == "ctrA2"
IdA3 == "ctrA3"
IdB == "ctrB"
IdB2 == "ctrB2"
IdP1 == "pod1"
IdP2 == "pod2"

MapA1 == [UIDMap |-> << [HostID |-> 100000, ContainerID |-> 0, Size |-> 65536],
                        [HostID |-> 1000, ContainerID |-> 65536, Size |-> 1] >>,
          GIDMap |-> << [HostID |-> 200000, ContainerID |-> 0, Size |-> 65536] >>]
MapA3 == [UIDMap |-> << [HostID |-> 1048576 + 7, ContainerID |-> 0, Size |-> 10] >>,
          GIDMap |-> <<>>]

\* a container of the backing store: created, hence finalized
StoredCtr(id, pod, idmappings) ==
    [valid |-> TRUE,
     config |-> [ZeroCtrConfig EXCEPT !.ID = id, !.Pod = pod, !.IDMappings = idmappings]]

\* a container as the builder allocates it
NewCtr(id) == [valid |-> FALSE, config |-> [ZeroCtrConfig EXCEPT !.ID = id]]

StoredPod(id, infra) ==
    [valid |-> TRUE, config |-> [ZeroPodConfig EXCEPT !.ID = id],
     state |-> [InfraContainerID |-> infra]]

NewPod(id) ==
    [valid |-> FALSE, config |-> [ZeroPodConfig EXCEPT !.ID = id],
     state |-> [InfraContainerID |-> ""]]

NewVolume == [valid |-> FALSE, config |-> ZeroVolumeConfig, state |-> [NeedsChown |-> TRUE]]

NoEntities == [x \in {} |-> x]
NoOp == [kind |-> "", name |-> "", tgt |-> "", ref |-> "", arg |-> <<>>, err |-> Nil,
         wasValid |-> FALSE]
NoBuilder == [kind |-> "", pc |-> "idle", opts |-> <<>>, idx |-> 0, err |-> Nil,
              applied |-> <<>>]

StoreCtrs ==
    [c \in {"a1", "a2", "a3"} |->
        CASE c = "a1" -> StoredCtr(IdA1, IdP1, MapA1)
          [] c = "a2" -> StoredCtr(IdA2, IdP2, NoIDMappings)
          [] c = "a3" -> StoredCtr(IdA3, "", MapA3)]

StorePods ==
    [p \in {"p1", "p2"} |->
        IF p = "p1" THEN StoredPod(IdP1, IdA1) ELSE StoredPod(IdP2, "")]

\* the handles of the entities under construction
BuiltCtrs == {"b"}

\* a pointer to the container (pod) with handle h, "nil" for the nil pointer
CtrPtr(h) == IF h = "nil" THEN NilRef ELSE Ptr(ctrs[h])
PodPtr(h) == IF h = "nil" THEN NilRef ELSE Ptr(pods[h])

CtrRefs == DOMAIN ctrs \cup {"nil"}
PodRefs == DOMAIN pods \cup {"nil"}

----------------------------------------------------------------------------
(* Argument values *)

Names == {<<"a", "-", "0">>, <<"_", "a">>, <<>>}
SdNotifyModes == {"", "conmon", "CONMON", "bogus"}
Signals == {-64, -1, 0, 1, 15, 64, 65}
LogDrivers == {"", JournaldLogging, KubernetesLogging, JSONLogging, NoLogging,
               PassthroughLogging, "syslog"}
CgroupsModes == {"disabled", "enabled", "no-conmon", cgroupSplit, "bogus"}
DNSBatches == {<<"10.0.0.1">>, <<"::1", "10.0.0.1">>, <<"10.0.0.1", "bad">>}
DNSOptions == {<<>>, <<"ndots:1">>}
RestartPolicies == {RestartPolicyNone, RestartPolicyNo, RestartPolicyOnFailure,
                    RestartPolicyAlways, RestartPolicyUnlessStopped, "sometimes"}
VolOK == [Name |-> "vol1", Dest |-> "/data", Options |-> <<>>]
VolBad == [Name |-> "vol2", Dest |-> "/bad", Options |-> <<"bogus">>]
NamedVolumeBatches == {<<VolOK>>, <<VolOK, VolBad>>, <<VolBad>>}
Timezones == {"local", "UTC", "Europe", "Nowhere"}
Umasks == {<<0, 0, 2, 2>>, <<0, 8>>, <<>>}
EnvSecretMaps == {<<>>, << <<"T1", "s1">> >>, << <<"T1", "s1">>, <<"T2", "missing">> >>,
                  << <<"T2", "missing">>, <<"T1", "s1">> >>}
InitCtrTypes == {OneShotInitContainer, AlwaysInitContainer, "bogus"}
DepLists == {<<>>, <<"a1">>, <<"a1", "a3">>, <<"a3", "a1">>, <<"a1", "a2">>,
             <<"a1", "nil">>, <<"a3", "a3">>}
SomeIDMappings == [UIDMap |-> << [HostID |-> 5000, ContainerID |-> 0, Size |-> 100] >>,
                   GIDMap |-> << [HostID |-> 6000, ContainerID |-> 0, Size |-> 100] >>]

----------------------------------------------------------------------------
(* Applying a container option: the closure runs on container c.  An error *)
(* on a container under construction ends its construction.                *)

\* arg: the tuple of argument values the closure captured, kept for the options
\* whose result depends on them
CtrApplyArg(c, name, ref, arg, r) ==
    /\ budget > 0
    /\ c \notin aborted
    /\ ctrs' = [ctrs EXCEPT ![c] = r.ent]
    /\ lastOp' = [kind |-> "ctr", name |-> name, tgt |-> c, ref |-> ref, arg |-> arg,
                  err |-> r.err, wasValid |-> ctrs[c].valid]
    /\ budget' = budget - 1
    /\ aborted' = IF r.err # Nil /\ ~ctrs[c].valid THEN aborted \cup {c} ELSE aborted
    /\ UNCHANGED <<rts, pods, vols, infraSpec, store, bld>>

CtrApply(c, name, ref, r) == CtrApplyArg(c, name, ref, <<>>, r)

ApplyCtrOption(c) ==
    \/ CtrApply(c, "WithCDI", "", WithCDI(<<"vendor.com/device=gpu">>, ctrs[c]))
    \/ CtrApply(c, "WithStorageOpts", "", WithStorageOpts({<<"size", "1G">>}, ctrs[c]))
    \/ CtrApply(c, "WithMaxLogSize", "", WithMaxLogSize(4096, ctrs[c]))
    \/ CtrApply(c, "WithShmDir", "", WithShmDir("/dev/shm/b", ctrs[c]))
    \/ CtrApply(c, "WithSystemd", "", WithSystemd(ctrs[c]))
    \/ \E m \in SdNotifyModes : CtrApply(c, "WithSdNotifyMode", "", WithSdNotifyMode(m, ctrs[c]))
    \/ CtrApply(c, "WithShmSize", "", WithShmSize(65536, ctrs[c]))
    \/ \E p \in BOOLEAN : CtrApply(c, "WithPrivileged", "", WithPrivileged(p, ctrs[c]))
    \/ CtrApply(c, "WithSecLabels", "", WithSecLabels(<<"disable">>, ctrs[c]))
    \/ CtrApply(c, "WithUser", "", WithUser("1000:1000", ctrs[c]))
    \/ CtrApply(c, "WithRootFSFromImage", "",
                WithRootFSFromImage("img1", "alpine", "docker.io/alpine", ctrs[c]))
    \/ CtrApply(c, "WithStdin", "", WithStdin(ctrs[c]))
    \/ \E p \in PodRefs : CtrApply(c, "WithPod", p, WithPod(PodPtr(p), ctrs[c]))
    \/ CtrApply(c, "WithLabels", "", WithLabels({<<"app", "web">>}, ctrs[c]))
    \/ \E n \in Names : CtrApply(c, "WithName", "", WithName(n, ctrs[c]))
    \/ \E s \in Signals : CtrApplyArg(c, "WithStopSignal", "", <<s>>, WithStopSignal(s, ctrs[c]))
    \/ CtrApply(c, "WithStopTimeout", "", WithStopTimeout(10, ctrs[c]))
    \/ CtrApply(c, "WithTimeout", "", WithTimeout(30, ctrs[c]))
    \/ CtrApply(c, "WithIDMappings", "", WithIDMappings(SomeIDMappings, ctrs[c]))
    \/ CtrApply(c, "WithExitCommand", "", WithExitCommand(<<"podman", "cleanup">>, ctrs[c]))
    \/ \E p \in PodRefs :
          CtrApply(c, "WithUTSNSFromPod", p, WithUTSNSFromPod(PodPtr(p), ctrs[c]))
    \/ \E a \in CtrRefs : CtrApply(c, "WithIPCNSFrom", a, WithIPCNSFrom(CtrPtr(a), ctrs[c]))
    \/ \E a \in CtrRefs : CtrApply(c, "WithMountNSFrom", a, WithMountNSFrom(CtrPtr(a), ctrs[c]))
    \/ \E a \in CtrRefs : CtrApply(c, "WithNetNSFrom", a, WithNetNSFrom(CtrPtr(a), ctrs[c]))
    \/ \E a \in CtrRefs : CtrApply(c, "WithPIDNSFrom", a, WithPIDNSFrom(CtrPtr(a), ctrs[c]))
    \/ CtrApply(c, "WithAddCurrentUserPasswdEntry", "", WithAddCurrentUserPasswdEntry(ctrs[c]))
    \/ \E a \in CtrRefs, copyOK \in JSONDeepCopyOutcomes :
          CtrApply(c, "WithUserNSFrom", a, WithUserNSFrom(CtrPtr(a), copyOK, ctrs[c]))
    \/ \E a \in CtrRefs : CtrApply(c, "WithUTSNSFrom", a, WithUTSNSFrom(CtrPtr(a), ctrs[c]))
    \/ \E a \in CtrRefs : CtrApply(c, "WithCgroupNSFrom", a, WithCgroupNSFrom(CtrPtr(a), ctrs[c]))
    \/ \E l \in DepLists :
          CtrApplyArg(c, "WithDependencyCtrs", "", <<l>>,
                      WithDependencyCtrs(SeqMap(CtrPtr, l), ctrs[c]))
    \/ \E post \in BOOLEAN :
          CtrApply(c, "WithNetNS", "",
                   WithNetNS(<<"8080:80">>, {<<80, "tcp">>}, post, "bridge", <<"net1">>,
                             ctrs[c]))
    \/ CtrApply(c, "WithStaticIP", "", WithStaticIP("ip:10.88.0.5", ctrs[c]))
    \/ CtrApply(c, "WithNetworkOptions", "", WithNetworkOptions({<<"slirp4netns", "mtu">>}, ctrs[c]))
    \/ CtrApply(c, "WithStaticMAC", "", WithStaticMAC("mac:02:00:00:00:00:01", ctrs[c]))
    \/ \E d \in LogDrivers :
          CtrApplyArg(c, "WithLogDriver", "", <<d>>, WithLogDriver(d, ctrs[c]))
    \/ \E p \in {"", "/log"} : CtrApply(c, "WithLogPath", "", WithLogPath(p, ctrs[c]))
    \/ \E t \in {"", "tag"} : CtrApply(c, "WithLogTag", "", WithLogTag(t, ctrs[c]))
    \/ \E m \in CgroupsModes :
          CtrApplyArg(c, "WithCgroupsMode", "", <<m>>, WithCgroupsMode(m, ctrs[c]))
    \/ \E p \in {"", "/machine.slice"} :
          CtrApply(c, "WithCgroupParent", "", WithCgroupParent(p, ctrs[c]))
    \/ CtrApply(c, "WithDNSSearch", "", WithDNSSearch(<<"example.com">>, ctrs[c]))
    \/ \E d \in DNSBatches : CtrApplyArg(c, "WithDNS", "", <<d>>, WithDNS(d, ctrs[c]))
    \/ \E o \in DNSOptions :
          CtrApplyArg(c, "WithDNSOption", "", <<o>>, WithDNSOption(o, ctrs[c]))
    \/ CtrApply(c, "WithHosts", "", WithHosts(<<"db:10.0.0.2">>, ctrs[c]))
    \/ CtrApply(c, "WithConmonPidFile", "", WithConmonPidFile("/run/conmon.pid", ctrs[c]))
    \/ CtrApply(c, "WithGroups", "", WithGroups(<<"wheel">>, ctrs[c]))
    \/ \E v \in {NilRef, Ptr(<<"/data">>)} :
          CtrApply(c, "WithUserVolumes", "", WithUserVolumes(v, ctrs[c]))
    \/ CtrApply(c, "WithEntrypoint", "", WithEntrypoint(<<"/entry">>, ctrs[c]))
    \/ CtrApply(c, "WithCommand", "", WithCommand(<<"sleep", "1">>, ctrs[c]))
    \/ \E p \in {"/exists", "/missing"} :
          CtrApply(c, "WithRootFS", "", WithRootFS(p, TRUE, ctrs[c]))
    \/ CtrApply(c, "WithCtrNamespace", "", WithCtrNamespace("prod", ctrs[c]))
    \/ CtrApply(c, "WithUseImageResolvConf", "", WithUseImageResolvConf(ctrs[c]))
    \/ CtrApply(c, "WithUseImageHosts", "", WithUseImageHosts(ctrs[c]))
    \/ \E p \in RestartPolicies :
          CtrApplyArg(c, "WithRestartPolicy", "", <<p>>, WithRestartPolicy(p, ctrs[c]))
    \/ CtrApply(c, "WithRestartRetries", "", WithRestartRetries(3, ctrs[c]))
    \/ \E v \in NamedVolumeBatches :
          CtrApply(c, "WithNamedVolumes", "", WithNamedVolumes(v, ctrs[c]))
    \/ CtrApply(c, "WithOverlayVolumes", "",
                WithOverlayVolumes(<<[Dest |-> "/o", Source |-> "/src", Options |-> <<>>]>>,
                                   ctrs[c]))
    \/ CtrApply(c, "WithImageVolumes", "",
                WithImageVolumes(<<[Dest |-> "/i", Source |-> "img", ReadWrite |-> FALSE]>>,
                                 ctrs[c]))
    \/ CtrApply(c, "WithHealthCheck", "", WithHealthCheck("healthcheck", ctrs[c]))
    \/ CtrApply(c, "WithPreserveFDs", "", WithPreserveFDs(2, ctrs[c]))
    \/ CtrApply(c, "WithCreateCommand", "", WithCreateCommand(<<"podman", "run">>, ctrs[c]))
    \/ CtrApply(c, "withIsInfra", "", withIsInfra(ctrs[c]))
    \/ CtrApply(c, "WithCreateWorkingDir", "", WithCreateWorkingDir(ctrs[c]))
    \/ CtrApply(c, "WithNetworkAliases", "", WithNetworkAliases({<<"net1", "web">>}, ctrs[c]))
    \/ \E z \in Timezones : CtrApply(c, "WithTimezone", "", WithTimezone(z, ctrs[c]))
    \/ \E u \in Umasks : CtrApply(c, "WithUmask", "", WithUmask(u, ctrs[c]))
    \/ CtrApply(c, "WithSecrets", "", WithSecrets(<<"secret1">>, ctrs[c]))
    \/ \E e \in EnvSecretMaps, managerOK \in BOOLEAN :
          CtrApply(c, "WithEnvSecrets", "", WithEnvSecrets(e, managerOK, ctrs[c]))
    \/ CtrApply(c, "WithPidFile", "", WithPidFile("/run/ctr.pid", ctrs[c]))
    \/ \E t \in InitCtrTypes : CtrApply(c, "WithInitCtrType", "", WithInitCtrType(t, ctrs[c]))
    \/ CtrApply(c, "WithHostDevice", "", WithHostDevice(<<"/dev/fuse">>, ctrs[c]))
    \/ CtrApply(c, "WithVolatile", "", WithVolatile(ctrs[c]))

\* The builder's last step on container c after every option succeeded: the
\* container is marked valid and created in the backing store.
FinalizeCtr(c) ==
    /\ ~ctrs[c].valid
    /\ c \notin aborted
    /\ ctrs' = [ctrs EXCEPT ![c].valid = TRUE]
    /\ store' = store \cup {CtrID(ctrs[c])}
    /\ UNCHANGED <<rts, pods, vols, infraSpec, aborted, budget, lastOp, bld>>

InitCtrB(n) ==
    /\ rts = [r \in {"rt"} |-> [ZeroRuntime EXCEPT !.valid = TRUE]]
    /\ ctrs = [c \in {"a1", "a2", "a3"} \cup BuiltCtrs |->
                  IF c \in BuiltCtrs THEN NewCtr(IdB) ELSE StoreCtrs[c]]
    /\ pods = StorePods
    /\ vols = NoEntities
    /\ infraSpec = [ConmonPidFile |-> ""]
    /\ store = {IdA1, IdA2, IdA3, IdP1, IdP2}
    /\ aborted = {}
    /\ budget = n
    /\ lastOp = NoOp
    /\ bld = NoBuilder

NextCtr == \E c \in BuiltCtrs \cap DOMAIN ctrs : ApplyCtrOption(c) \/ FinalizeCtr(c)

SpecCtr == InitCtrB(MaxCtrOps) /\ [][NextCtr]_vars

----------------------------------------------------------------------------
(* Applying runtime, pod and volume options *)

StoreConfigs ==
    {[ZeroStoreOptions EXCEPT !.GraphDriverName = "overlay"],
     [ZeroStoreOptions EXCEPT !.GraphRoot = "/graph"],
     [ZeroStoreOptions EXCEPT !.RunRoot = "/runroot", !.GraphRoot = "/graph2"],
     [ZeroStoreOptions EXCEPT !.GraphDriverName = "vfs",
                              !.GraphDriverOptions = Ptr(<<"vfs.opt">>)],
     [ZeroStoreOptions EXCEPT !.GraphDriverOptions = Ptr(<<"overlay.mountopt=nodev">>)],
     [ZeroStoreOptions EXCEPT !.UIDMap = Ptr(<<"0:1000:1">>), !.GIDMap = Ptr(<<"0:1000:1">>)],
     ZeroStoreOptions}

RtApplyArg(r, name, arg, res) ==
    /\ budget > 0
    /\ r \notin aborted
    /\ rts' = [rts EXCEPT ![r] = res.ent]
    /\ lastOp' = [kind |-> "rt", name |-> name, tgt |-> r, ref |-> "", arg |-> arg,
                  err |-> res.err, wasValid |-> rts[r].valid]
    /\ budget' = budget - 1
    /\ aborted' = IF res.err # Nil /\ ~rts[r].valid THEN aborted \cup {r} ELSE aborted
    /\ UNCHANGED <<ctrs, pods, vols, infraSpec, store, bld>>

RtApply(r, name, res) == RtApplyArg(r, name, <<>>, res)

ApplyRuntimeOption(r) ==
    \/ \E cfg \in StoreConfigs, defaultsOK \in BOOLEAN :
          RtApplyArg(r, "WithStorageConfig", <<cfg, defaultsOK>>,
                     WithStorageConfig(cfg, defaultsOK, rts[r]))
    \/ RtApply(r, "WithDefaultTransport", WithDefaultTransport("docker://", rts[r]))
    \/ RtApply(r, "WithSignaturePolicy", WithSignaturePolicy("/etc/policy.json", rts[r]))
    \/ \E s \in {InvalidStateStore, "BoltDBStateStore"} :
          RtApply(r, "WithStateType", WithStateType(s, rts[r]))
    \/ \E p \in {"", "crun"} : RtApply(r, "WithOCIRuntime", WithOCIRuntime(p, rts[r]))
    \/ \E p \in {"", "/usr/bin/conmon"} :
          RtApply(r, "WithConmonPath", WithConmonPath(p, rts[r]))
    \/ RtApply(r, "WithConmonEnv", WithConmonEnv(<<"PATH=/bin">>, rts[r]))
    \/ RtApply(r, "WithNetworkCmdPath", WithNetworkCmdPath("/usr/bin/slirp4netns", rts[r]))
    \/ \E m \in {CgroupfsCgroupsManager, SystemdCgroupsManager, "bogus"} :
          RtApply(r, "WithCgroupManager", WithCgroupManager(m, rts[r]))
    \/ RtApply(r, "WithStaticDir", WithStaticDir("/static", rts[r]))
    \/ \E p \in {"/etc/registries.conf", "/missing"} :
          RtApply(r, "WithRegistriesConf", WithRegistriesConf(p, rts[r]))
    \/ \E h \in {<<"/hooks">>, <<"/hooks", "">>} :
          RtApply(r, "WithHooksDir", WithHooksDir(h, rts[r]))
    \/ \E f \in {"", "/mounts.conf"} :
          RtApply(r, "WithDefaultMountsFile", WithDefaultMountsFile(f, rts[r]))
    \/ \E d \in {"/tmp/a", "/tmp/b"} : RtApply(r, "WithTmpDir", WithTmpDir(d, rts[r]))
    \/ RtApply(r, "WithNoStore", WithNoStore(rts[r]))
    \/ RtApply(r, "WithNoPivotRoot", WithNoPivotRoot(rts[r]))
    \/ RtApply(r, "WithCNIConfigDir", WithCNIConfigDir("/etc/cni/net.d", rts[r]))
    \/ RtApply(r, "WithCNIPluginDir", WithCNIPluginDir("/usr/libexec/cni", rts[r]))
    \/ RtApply(r, "WithNamespace", WithNamespace("prod", rts[r]))
    \/ RtApply(r, "WithVolumePath", WithVolumePath("/volumes", rts[r]))
    \/ RtApply(r, "WithDefaultInfraImage", WithDefaultInfraImage("k8s.gcr.io/pause", rts[r]))
    \/ RtApply(r, "WithDefaultInfraCommand", WithDefaultInfraCommand("/pause", rts[r]))
    \/ RtApply(r, "WithDefaultInfraName", WithDefaultInfraName("infra", rts[r]))
    \/ RtApply(r, "WithRenumber", WithRenumber(rts[r]))
    \/ RtApply(r, "WithMigrate", WithMigrate(rts[r]))
    \/ \E m \in {"", "runc"} :
          RtApply(r, "WithMigrateRuntime", WithMigrateRuntime(m, rts[r]))
    \/ \E l \in {"file", "journald", "bogus"} :
          RtApply(r, "WithEventsLogger", WithEventsLogger(l, rts[r]))
    \/ RtApply(r, "WithEnableSDNotify", WithEnableSDNotify(rts[r]))
    \/ RtApply(r, "WithRuntimeFlags", WithRuntimeFlags(<<"--debug">>, rts[r]))

\* The runtime is marked valid once every option of its construction succeeded.
FinalizeRuntime(r) ==
    /\ ~rts[r].valid
    /\ r \notin aborted
    /\ rts' = [rts EXCEPT ![r].valid = TRUE]
    /\ UNCHANGED <<ctrs, pods, vols, infraSpec, store, aborted, budget, lastOp, bld>>

PodApply(p, name, res, spec) ==
    /\ budget > 0
    /\ p \notin aborted
    /\ pods' = [pods EXCEPT ![p] = res.ent]
    /\ infraSpec' = spec
    /\ lastOp' = [kind |-> "pod", name |-> name, tgt |-> p, ref |-> "", arg |-> <<>>,
                  err |-> res.err,
                  wasValid |-> pods[p].valid]
    /\ budget' = budget - 1
    /\ aborted' = IF res.err # Nil /\ ~pods[p].valid THEN aborted \cup {p} ELSE aborted
    /\ UNCHANGED <<rts, ctrs, vols, store, bld>>

ApplyPodOption(p) ==
    \/ PodApply(p, "WithPodCreateCommand",
                WithPodCreateCommand(<<"podman", "pod", "create">>, pods[p]), infraSpec)
    \/ \E n \in Names : PodApply(p, "WithPodName", WithPodName(n, pods[p]), infraSpec)
    \/ \E n \in Names : PodApply(p, "WithPodHostname", WithPodHostname(n, pods[p]), infraSpec)
    \/ \E path \in {"/run/infra.pid", "/run/other.pid"} :
          PodApply(p, "WithInfraConmonPidFile",
                   WithInfraConmonPidFile(path, infraSpec, pods[p]),
                   WithInfraConmonPidFile(path, infraSpec, pods[p]).spec)
    \/ PodApply(p, "WithPodLabels", WithPodLabels({<<"app", "web">>}, pods[p]), infraSpec)
    \/ PodApply(p, "WithPodCgroupParent", WithPodCgroupParent("/machine.slice", pods[p]),
                infraSpec)
    \/ PodApply(p, "WithPodCgroups", WithPodCgroups(pods[p]), infraSpec)
    \/ PodApply(p, "WithPodNamespace", WithPodNamespace("prod", pods[p]), infraSpec)
    \/ PodApply(p, "WithPodIPC", WithPodIPC(pods[p]), infraSpec)
    \/ PodApply(p, "WithPodNet", WithPodNet(pods[p]), infraSpec)
    \/ PodApply(p, "WithPodMount", WithPodMount(pods[p]), infraSpec)
    \/ PodApply(p, "WithPodUser", WithPodUser(pods[p]), infraSpec)
    \/ PodApply(p, "WithPodPID", WithPodPID(pods[p]), infraSpec)
    \/ PodApply(p, "WithPodUTS", WithPodUTS(pods[p]), infraSpec)
    \/ PodApply(p, "WithPodCgroup", WithPodCgroup(pods[p]), infraSpec)
    \/ PodApply(p, "WithInfraContainer", WithInfraContainer(pods[p]), infraSpec)

\* The builder's last step on pod p: marked valid and created in the store.
FinalizePod(p) ==
    /\ ~pods[p].valid
    /\ p \notin aborted
    /\ pods' = [pods EXCEPT ![p].valid = TRUE]
    /\ store' = store \cup {PodID(pods[p])}
    /\ UNCHANGED <<rts, ctrs, vols, infraSpec, aborted, budget, lastOp, bld>>

VolApply(v, name, res) ==
    /\ budget > 0
    /\ v \notin aborted
    /\ vols' = [vols EXCEPT ![v] = res.ent]
    /\ lastOp' = [kind |-> "vol", name |-> name, tgt |-> v, ref |-> "", arg |-> <<>>,
                  err |-> res.err,
                  wasValid |-> vols[v].valid]
    /\ budget' = budget - 1
    /\ aborted' = IF res.err # Nil /\ ~vols[v].valid THEN aborted \cup {v} ELSE aborted
    /\ UNCHANGED <<rts, ctrs, pods, infraSpec, store, bld>>

ApplyVolumeOption(v) ==
    \/ \E n \in Names : VolApply(v, "WithVolumeName", WithVolumeName(n, vols[v]))
    \/ VolApply(v, "WithVolumeDriver", WithVolumeDriver("local", vols[v]))
    \/ VolApply(v, "WithVolumeLabels", WithVolumeLabels({<<"app", "web">>}, vols[v]))
    \/ VolApply(v, "WithVolumeOptions", WithVolumeOptions({<<"type", "tmpfs">>}, vols[v]))
    \/ \E u \in {0, 1000} : VolApply(v, "WithVolumeUID", WithVolumeUID(u, vols[v]))
    \/ VolApply(v, "WithVolumeSize", WithVolumeSize(1024, vols[v]))
    \/ VolApply(v, "WithVolumeInodes", WithVolumeInodes(100, vols[v]))
    \/ \E g \in {0, 1000} : VolApply(v, "WithVolumeGID", WithVolumeGID(g, vols[v]))
    \/ VolApply(v, "WithVolumeNoChown", WithVolumeNoChown(vols[v]))
    \/ VolApply(v, "withSetAnon", withSetAnon(vols[v]))

\* The builder's last step on volume v: marked valid and created in the store.
FinalizeVolume(v) ==
    /\ ~vols[v].valid
    /\ v \notin aborted
    /\ vols' = [vols EXCEPT ![v].valid = TRUE]
    /\ store' = store \cup {"volume"}
    /\ UNCHANGED <<rts, ctrs, pods, infraSpec, aborted, budget, lastOp, bld>>

\* First use of a finalized volume by a container: the volume is chowned once.
VolumeFirstUseChown(v) ==
    /\ vols[v].valid
    /\ vols[v].state.NeedsChown
    /\ vols' = [vols EXCEPT ![v].state.NeedsChown = FALSE]
    /\ UNCHANGED <<rts, ctrs, pods, infraSpec, store, aborted, budget, lastOp, bld>>

InitRtB(n) ==
    /\ rts = [r \in {"rt"} |-> ZeroRuntime]
    /\ ctrs = NoEntities
    /\ pods = NoEntities
    /\ vols = NoEntities
    /\ infraSpec = [ConmonPidFile |-> ""]
    /\ store = {}
    /\ aborted = {}
    /\ budget = n
    /\ lastOp = NoOp
    /\ bld = NoBuilder

InitPodB(n) ==
    /\ rts = [r \in {"rt"} |-> [ZeroRuntime EXCEPT !.valid = TRUE]]
    /\ ctrs = NoEntities
    /\ pods = [p \in {"p1", "q"} |-> IF p = "q" THEN NewPod("podQ") ELSE StorePods[p]]
    /\ vols = NoEntities
    /\ infraSpec = [ConmonPidFile |-> ""]
    /\ store = {IdP1}
    /\ aborted = {}
    /\ budget = n
    /\ lastOp = NoOp
    /\ bld = NoBuilder

InitVolB(n) ==
    /\ rts = [r \in {"rt"} |-> [ZeroRuntime EXCEPT !.valid = TRUE]]
    /\ ctrs = NoEntities
    /\ pods = NoEntities
    /\ vols = [v \in {"v"} |-> NewVolume]
    /\ infraSpec = [ConmonPidFile |-> ""]
    /\ store = {}
    /\ aborted = {}
    /\ budget = n
    /\ lastOp = NoOp
    /\ bld = NoBuilder

NextRt == \E r \in DOMAIN rts : ApplyRuntimeOption(r) \/ FinalizeRuntime(r)
NextPod == \E p \in DOMAIN pods : ApplyPodOption(p) \/ FinalizePod(p)
NextVol == \E v \in DOMAIN vols : ApplyVolumeOption(v) \/ FinalizeVolume(v) \/ VolumeFirstUseChown(v)

SpecRt == InitRtB(MaxRtOps) /\ [][NextRt]_vars
SpecPod == InitPodB(MaxPodOps) /\ [][NextPod]_vars
SpecVol == InitVolB(MaxVolOps) /\ [][NextVol]_vars

----------------------------------------------------------------------------
(* Namespace and network options alone, for longer option sequences *)

ApplyNamespaceOption(c) ==
    \/ \E p \in PodRefs : CtrApply(c, "WithPod", p, WithPod(PodPtr(p), ctrs[c]))
    \/ \E p \in PodRefs :
          CtrApply(c, "WithUTSNSFromPod", p, WithUTSNSFromPod(PodPtr(p), ctrs[c]))
    \/ \E a \in CtrRefs : CtrApply(c, "WithIPCNSFrom", a, WithIPCNSFrom(CtrPtr(a), ctrs[c]))
    \/ \E a \in CtrRefs : CtrApply(c, "WithMountNSFrom", a, WithMountNSFrom(CtrPtr(a), ctrs[c]))
    \/ \E a \in CtrRefs : CtrApply(c, "WithNetNSFrom", a, WithNetNSFrom(CtrPtr(a), ctrs[c]))
    \/ \E a \in CtrRefs : CtrApply(c, "WithPIDNSFrom", a, WithPIDNSFrom(CtrPtr(a), ctrs[c]))
    \/ \E a \in CtrRefs, copyOK \in JSONDeepCopyOutcomes :
          CtrApply(c, "WithUserNSFrom", a, WithUserNSFrom(CtrPtr(a), copyOK, ctrs[c]))
    \/ \E a \in CtrRefs : CtrApply(c, "WithUTSNSFrom", a, WithUTSNSFrom(CtrPtr(a), ctrs[c]))
    \/ \E a \in CtrRefs : CtrApply(c, "WithCgroupNSFrom", a, WithCgroupNSFrom(CtrPtr(a), ctrs[c]))
    \/ \E l \in DepLists :
          CtrApplyArg(c, "WithDependencyCtrs", "", <<l>>,
                      WithDependencyCtrs(SeqMap(CtrPtr, l), ctrs[c]))
    \/ CtrApply(c, "WithNetNS", "",
                WithNetNS(<<"8080:80">>, {<<80, "tcp">>}, FALSE, "bridge", <<"net1">>,
                          ctrs[c]))
    \/ CtrApply(c, "WithStaticIP", "", WithStaticIP("ip:10.88.0.5", ctrs[c]))
    \/ CtrApply(c, "WithStaticMAC", "", WithStaticMAC("mac:02:00:00:00:00:01", ctrs[c]))

NextNS == \E c \in BuiltCtrs \cap DOMAIN ctrs : ApplyNamespaceOption(c) \/ FinalizeCtr(c)

SpecNS == InitCtrB(MaxNSOps) /\ [][NextNS]_vars

----------------------------------------------------------------------------
(* The options that validate their argument, and the DNS options *)

ApplyValidatedOption(c) ==
    \/ \E s \in Signals : CtrApplyArg(c, "WithStopSignal", "", <<s>>, WithStopSignal(s, ctrs[c]))
    \/ \E p \in RestartPolicies :
          CtrApplyArg(c, "WithRestartPolicy", "", <<p>>, WithRestartPolicy(p, ctrs[c]))
    \/ \E d \in LogDrivers :
          CtrApplyArg(c, "WithLogDriver", "", <<d>>, WithLogDriver(d, ctrs[c]))
    \/ \E m \in CgroupsModes :
          CtrApplyArg(c, "WithCgroupsMode", "", <<m>>, WithCgroupsMode(m, ctrs[c]))
    \/ \E d \in DNSBatches : CtrApplyArg(c, "WithDNS", "", <<d>>, WithDNS(d, ctrs[c]))
    \/ \E o \in DNSOptions :
          CtrApplyArg(c, "WithDNSOption", "", <<o>>, WithDNSOption(o, ctrs[c]))
    \/ CtrApply(c, "WithUseImageResolvConf", "", WithUseImageResolvConf(ctrs[c]))

NextArgs == \E c \in BuiltCtrs \cap DOMAIN ctrs : ApplyValidatedOption(c) \/ FinalizeCtr(c)

SpecArgs == InitCtrB(MaxArgOps) /\ [][NextArgs]_vars

----------------------------------------------------------------------------
(* Two containers under construction at the same time, each by its own      *)
(* caller, while a pod of the store gets its infra container                *)

SiblingCtrs == {"b", "b2"}
\* the containers WithUserNSFrom is given: the siblings and one of the store
SiblingRefs == SiblingCtrs \cup {"a1"}
SiblingDepLists == {<<"a1">>, <<"b2", "a1">>, <<"a1", "b">>}

InitConc ==
    /\ rts = [r \in {"rt"} |-> [ZeroRuntime EXCEPT !.valid = TRUE]]
    /\ ctrs = [c \in {"a1", "a2", "a3"} \cup SiblingCtrs |->
                  CASE c = "b" -> NewCtr(IdB)
                    [] c = "b2" -> NewCtr(IdB2)
                    [] OTHER -> StoreCtrs[c]]
    /\ pods = StorePods
    /\ vols = NoEntities
    /\ infraSpec = [ConmonPidFile |-> ""]
    /\ store = {IdA1, IdA2, IdA3, IdP1, IdP2}
    /\ aborted = {}
    /\ budget = MaxConcOps
    /\ lastOp = NoOp
    /\ bld = NoBuilder

\* The pod's infra container is created: a container of the store that
\* belongs to the pod becomes the pod's infra container.
CreateInfraContainer(p) ==
    /\ pods[p].valid
    /\ pods[p].state.InfraContainerID = ""
    /\ \E a \in {"a1", "a2", "a3"} :
          /\ ctrs[a].valid
          /\ CtrPodID(ctrs[a]) = PodID(pods[p])
          /\ pods' = [pods EXCEPT ![p].state.InfraContainerID = CtrID(ctrs[a])]
    /\ UNCHANGED <<rts, ctrs, vols, infraSpec, store, aborted, budget, lastOp, bld>>

ApplySiblingOption(c) ==
    \/ \E p \in DOMAIN pods : CtrApply(c, "WithPod", p, WithPod(PodPtr(p), ctrs[c]))
    \/ \E p \in DOMAIN pods :
          CtrApply(c, "WithUTSNSFromPod", p, WithUTSNSFromPod(PodPtr(p), ctrs[c]))
    \/ \E a \in SiblingCtrs : CtrApply(c, "WithIPCNSFrom", a, WithIPCNSFrom(CtrPtr(a), ctrs[c]))
    \/ \E a \in SiblingCtrs :
          CtrApply(c, "WithMountNSFrom", a, WithMountNSFrom(CtrPtr(a), ctrs[c]))
    \/ \E a \in SiblingCtrs : CtrApply(c, "WithNetNSFrom", a, WithNetNSFrom(CtrPtr(a), ctrs[c]))
    \/ \E a \in SiblingCtrs : CtrApply(c, "WithPIDNSFrom", a, WithPIDNSFrom(CtrPtr(a), ctrs[c]))
    \/ \E a \in SiblingRefs, copyOK \in JSONDeepCopyOutcomes :
          CtrApply(c, "WithUserNSFrom", a, WithUserNSFrom(CtrPtr(a), copyOK, ctrs[c]))
    \/ \E a \in SiblingCtrs : CtrApply(c, "WithUTSNSFrom", a, WithUTSNSFrom(CtrPtr(a), ctrs[c]))
    \/ \E a \in SiblingCtrs :
          CtrApply(c, "WithCgroupNSFrom", a, WithCgroupNSFrom(CtrPtr(a), ctrs[c]))
    \/ \E l \in SiblingDepLists :
          CtrApplyArg(c, "WithDependencyCtrs", "", <<l>>,
                      WithDependencyCtrs(SeqMap(CtrPtr, l), ctrs[c]))

NextConc ==
    \/ \E c \in SiblingCtrs : ApplySiblingOption(c) \/ FinalizeCtr(c)
    \/ \E p \in DOMAIN pods : CreateInfraContainer(p)

SpecConc == InitConc /\ [][NextConc]_vars

----------------------------------------------------------------------------
(* Every kind of entity *)

InitAll ==
    \/ InitRtB(MaxAllOps)
    \/ InitCtrB(MaxAllOps)
    \/ InitPodB(MaxAllOps)
    \/ InitVolB(MaxAllOps)

Next == NextRt \/ NextCtr \/ NextPod \/ NextVol

Spec == InitAll /\ [][Next]_vars

----------------------------------------------------------------------------
(* The entity builder: an ordered option list applied to a new container *)

\* An option of the list, as the closure the caller built: the option function
\* and the argument it captured.
OptionOf(op, arg) == [op |-> op, arg |-> arg]

BuilderOptions ==
    {OptionOf("WithLogDriver", JournaldLogging), OptionOf("WithLogDriver", ""),
     OptionOf("WithRestartPolicy", RestartPolicyAlways),
     OptionOf("WithRestartPolicy", "sometimes"),
     OptionOf("WithSystemd", ""),
     OptionOf("WithCgroupsMode", "disabled"), OptionOf("WithCgroupsMode", "bogus")}

OptionLists == UNION {[1..n -> BuilderOptions] : n \in 0..MaxBuildOpts}

\* Calling the closure on the container under construction.
CtrOption(o, ctr) ==
    CASE o.op = "WithLogDriver" -> WithLogDriver(o.arg, ctr)
      [] o.op = "WithRestartPolicy" -> WithRestartPolicy(o.arg, ctr)
      [] o.op = "WithSystemd" -> WithSystemd(ctr)
      [] o.op = "WithCgroupsMode" -> WithCgroupsMode(o.arg, ctr)

\* A builder that notes a failure and goes on to the next option.
BuilderApplyOptionContinuing(c) ==
    /\ bld.pc = "configuring"
    /\ bld.idx <= Len(bld.opts)
    /\ LET r == CtrOption(bld.opts[bld.idx], ctrs[c])
       IN /\ ctrs' = [ctrs EXCEPT ![c] = r.ent]
          /\ bld' = IF r.err # Nil
                    THEN [bld EXCEPT !.idx = bld.idx + 1,
                                     !.err = IF bld.err = Nil THEN r.err ELSE bld.err]
                    ELSE [bld EXCEPT !.idx = bld.idx + 1,
                                     !.applied = Append(bld.applied, bld.idx)]
    /\ UNCHANGED <<rts, pods, vols, infraSpec, store, aborted, budget, lastOp>>

\* Apply the next option of the list; a failure aborts the construction.
BuilderApplyOption(c) ==
    /\ bld.pc = "configuring"
    /\ bld.idx <= Len(bld.opts)
    /\ LET r == CtrOption(bld.opts[bld.idx], ctrs[c])
       IN /\ ctrs' = [ctrs EXCEPT ![c] = r.ent]
          /\ bld' = IF r.err # Nil
                    THEN [bld EXCEPT !.pc = "invalid", !.err = r.err]
                    ELSE [bld EXCEPT !.idx = bld.idx + 1,
                                     !.applied = Append(bld.applied, bld.idx)]
    /\ UNCHANGED <<rts, pods, vols, infraSpec, store, aborted, budget, lastOp>>

\* Every option succeeded: mark the entity finalized.
BuilderFinalize(c) ==
    /\ bld.pc = "configuring"
    /\ bld.idx > Len(bld.opts)
    /\ ctrs' = [ctrs EXCEPT ![c].valid = TRUE]
    /\ bld' = [bld EXCEPT !.pc = "finalized"]
    /\ UNCHANGED <<rts, pods, vols, infraSpec, store, aborted, budget, lastOp>>

\* The finalized entity is handed to the storage layer for creation.
BuilderCreate(c) ==
    /\ bld.pc = "finalized"
    /\ store' = store \cup {CtrID(ctrs[c])}
    /\ bld' = [bld EXCEPT !.pc = "created"]
    /\ UNCHANGED <<rts, ctrs, pods, vols, infraSpec, aborted, budget, lastOp>>

InitBuild ==
    /\ rts = [r \in {"rt"} |-> [ZeroRuntime EXCEPT !.valid = TRUE]]
    /\ ctrs = [c \in BuiltCtrs |-> NewCtr(IdB)]
    /\ pods = NoEntities
    /\ vols = NoEntities
    /\ infraSpec = [ConmonPidFile |-> ""]
    /\ store = {}
    /\ aborted = {}
    /\ budget = 0
    /\ lastOp = NoOp
    /\ \E l \in OptionLists :
          bld = [kind |-> "ctr", pc |-> "configuring", opts |-> l, idx |-> 1, err |-> Nil,
                 applied |-> <<>>]

NextBuild ==
    \E c \in BuiltCtrs : BuilderApplyOption(c) \/ BuilderFinalize(c) \/ BuilderCreate(c)

SpecBuild == InitBuild /\ [][NextBuild]_vars

----------------------------------------------------------------------------
(* Properties: options applied after finalization *)

\* A step that applies an option to entity e of the given kind.
OptionStep(kind, e) ==
    /\ budget' < budget
    /\ lastOp'.kind = kind
    /\ lastOp'.tgt = e

\* C1: every container create option, WithEnvSecrets included, applied to a
\* container whose valid flag is true returns an error and leaves every field
\* of the container's config unchanged.
FinalizedCtrOptionIsNoOp ==
    [][\A c \in DOMAIN ctrs :
          (ctrs[c].valid /\ OptionStep("ctr", c))
             => (lastOp'.err # Nil /\ ctrs'[c].config = ctrs[c].config)]_vars

\* The case C1 is about: WithEnvSecrets returned the finalized error to a
\* container that is finalized and in the store.
FinalizedCtrRejectedEnvSecrets ==
    /\ lastOp.kind = "ctr"
    /\ lastOp.name = "WithEnvSecrets"
    /\ lastOp.wasValid
    /\ lastOp.err = ErrCtrFinalized
    /\ CtrID(ctrs[lastOp.tgt]) \in store
    /\ ctrs[lastOp.tgt].config.EnvSecrets = {}

\* C2: once the Runtime is finalized every Runtime option applied afterwards
\* fails and leaves the Runtime's state unchanged.
FinalizedRuntimeOptionFails ==
    [][\A r \in DOMAIN rts :
          (rts[r].valid /\ OptionStep("rt", r))
             => (lastOp'.err # Nil /\ rts'[r] = rts[r])]_vars

\* The case C2 is about: a finalized Runtime on which WithNoStore succeeded
\* and switched the store off.
FinalizedRuntimeNoStoreSet ==
    /\ lastOp.kind = "rt"
    /\ lastOp.name = "WithNoStore"
    /\ lastOp.wasValid
    /\ lastOp.err = Nil
    /\ rts[lastOp.tgt].valid
    /\ rts[lastOp.tgt].noStore

\* C3: every pod create option applied to a finalized pod fails with the
\* pod-finalized error and mutates nothing, neither the pod nor the infra spec
\* handed to WithInfraConmonPidFile.
FinalizedPodOptionFails ==
    [][\A p \in DOMAIN pods :
          (pods[p].valid /\ OptionStep("pod", p))
             => (lastOp'.err = ErrPodFinalized /\ pods' = pods /\ infraSpec' = infraSpec)]_vars

\* The case C3 is about: WithInfraConmonPidFile was applied to a pod that had
\* been built, finalized, and whose infra spec already carried a pid file.
FinalizedPodRejectedPidFile ==
    /\ lastOp.kind = "pod"
    /\ lastOp.name = "WithInfraConmonPidFile"
    /\ lastOp.wasValid
    /\ lastOp.err = ErrPodFinalized
    /\ lastOp.tgt = "q"
    /\ infraSpec.ConmonPidFile # ""

\* C4: each of the ten volume create options applied to a finalized volume
\* fails with the volume-finalized error and changes neither the volume's
\* config nor its NeedsChown state.
FinalizedVolumeOptionFails ==
    [][\A v \in DOMAIN vols :
          (vols[v].valid /\ OptionStep("vol", v))
             => (/\ lastOp'.err = ErrVolumeFinalized
                 /\ vols'[v].config = vols[v].config
                 /\ vols'[v].state.NeedsChown = vols[v].state.NeedsChown)]_vars

\* The case C4 is about: WithVolumeNoChown was rejected by a finalized volume
\* that still needs its first-use chown.
FinalizedVolumeRejectedNoChown ==
    /\ lastOp.kind = "vol"
    /\ lastOp.name = "WithVolumeNoChown"
    /\ lastOp.wasValid
    /\ lastOp.err = ErrVolumeFinalized
    /\ vols[lastOp.tgt].valid
    /\ vols[lastOp.tgt].state.NeedsChown

----------------------------------------------------------------------------
(* Properties: the builder and the valid flag *)

\* What the builder's contract gives for an option list: the options applied
\* from position i on, stopping at the first that fails. n is the number of
\* options that succeeded.
RECURSIVE ApplyInOrder(_, _, _)
ApplyInOrder(opts, i, ctr) ==
    IF i > Len(opts) THEN [err |-> Nil, ent |-> ctr, n |-> Len(opts)]
    ELSE LET r == CtrOption(opts[i], ctr)
         IN IF r.err # Nil THEN [err |-> r.err, ent |-> r.ent, n |-> i - 1]
            ELSE ApplyInOrder(opts, i + 1, r.ent)

\* C5: the entity builder applies the options strictly in list order and stops
\* at the first one that returns an error: nothing after it is applied, the
\* builder returns that error, the entity is never marked finalized, and the
\* store's create happens only when every option succeeded.
BuilderStopsAtFirstError ==
    bld.kind = "ctr" =>
        LET want == ApplyInOrder(bld.opts, 1, NewCtr(IdB))
            b == ctrs["b"]
        IN /\ bld.applied = [i \in 1..Len(bld.applied) |-> i]
           /\ Len(bld.applied) <= want.n
           /\ bld.pc \in {"invalid", "finalized", "created"}
                 => /\ bld.err = want.err
                    /\ Len(bld.applied) = want.n
                    /\ b.config = want.ent.config
           /\ bld.pc = "invalid" => (bld.err # Nil /\ ~b.valid /\ IdB \notin store)
           /\ b.valid => (bld.err = Nil /\ want.n = Len(bld.opts))
           /\ IdB \in store => (b.valid /\ bld.pc = "created")

\* The case C5 is about: of three options the first succeeded, the second
\* failed, and the third, which would have succeeded, was not applied.
BuilderAbortedOnSecondOption ==
    /\ bld.kind = "ctr"
    /\ bld.pc = "invalid"
    /\ Len(bld.opts) = 3
    /\ bld.applied = <<1>>
    /\ bld.opts[1] = OptionOf("WithLogDriver", JournaldLogging)
    /\ bld.opts[2] = OptionOf("WithRestartPolicy", "sometimes")
    /\ bld.opts[3] = OptionOf("WithSystemd", "")
    /\ bld.err = ErrInvalidArg
    /\ ctrs["b"].config.LogDriver = JournaldLogging
    /\ ~ctrs["b"].config.Systemd

\* C6: the valid flag of a Container, Pod, Volume or Runtime is monotone: no
\* option function sets or clears it, and a finalized entity stays finalized
\* through every later step.
ValidIsMonotone ==
    [][/\ \A c \in DOMAIN ctrs : ctrs[c].valid => ctrs'[c].valid
       /\ \A p \in DOMAIN pods : pods[p].valid => pods'[p].valid
       /\ \A v \in DOMAIN vols : vols[v].valid => vols'[v].valid
       /\ \A r \in DOMAIN rts : rts[r].valid => rts'[r].valid
       /\ budget' < budget =>
             /\ \A c \in DOMAIN ctrs : ctrs'[c].valid = ctrs[c].valid
             /\ \A p \in DOMAIN pods : pods'[p].valid = pods[p].valid
             /\ \A v \in DOMAIN vols : vols'[v].valid = vols[v].valid
             /\ \A r \in DOMAIN rts : rts'[r].valid = rts[r].valid]_vars

\* The case C6 is about: WithPod was applied to the container after it had
\* been finalized, and the container is still finalized.
FinalizedCtrStaysFinalized ==
    /\ lastOp.kind = "ctr"
    /\ lastOp.name = "WithPod"
    /\ lastOp.ref = "p1"
    /\ lastOp.wasValid
    /\ lastOp.tgt \in BuiltCtrs
    /\ ctrs[lastOp.tgt].valid

----------------------------------------------------------------------------
(* Properties: namespace references and the network namespace *)

NSFromOptions ==
    {"WithIPCNSFrom", "WithMountNSFrom", "WithNetNSFrom", "WithPIDNSFrom", "WithUserNSFrom",
     "WithUTSNSFrom", "WithCgroupNSFrom"}

\* The config field a namespace-from option stores the reference in.
NsCtrOf(config, option) ==
    CASE option = "WithIPCNSFrom" -> config.IPCNsCtr
      [] option = "WithMountNSFrom" -> config.MountNsCtr
      [] option = "WithNetNSFrom" -> config.NetNsCtr
      [] option = "WithPIDNSFrom" -> config.PIDNsCtr
      [] option = "WithUserNSFrom" -> config.UserNsCtr
      [] option = "WithUTSNSFrom" -> config.UTSNsCtr
      [] option = "WithCgroupNSFrom" -> config.CgroupNsCtr

CtrByID(id) == CHOOSE h \in DOMAIN ctrs : ctrs[h].config.ID = id

\* The IDs a container's config refers to: its *NsCtr fields that are set and
\* its dependencies.
ReferencedCtrs(config) ==
    ({config.IPCNsCtr, config.MountNsCtr, config.NetNsCtr, config.PIDNsCtr, config.UserNsCtr,
      config.UTSNsCtr, config.CgroupNsCtr} \ {""})
    \cup {config.Dependencies[i] : i \in 1..Len(config.Dependencies)}

\* C8: after any sequence of successfully applied container options, if the
\* container's config.Pod is non-empty then every container referenced by its
\* *NsCtr fields and its Dependencies belongs to that same pod.
ReferencesStayInPod ==
    \A c \in (BuiltCtrs \cap DOMAIN ctrs) \ aborted :
        ctrs[c].config.Pod # "" =>
            \A id \in ReferencedCtrs(ctrs[c].config) :
                ctrs[CtrByID(id)].config.Pod = ctrs[c].config.Pod

\* The case C8 is about: WithPod succeeded on a container that shares the
\* network namespace of a container of another pod.
JoinedPodAfterForeignNetNS ==
    /\ lastOp.kind = "ctr"
    /\ lastOp.name = "WithPod"
    /\ lastOp.ref = "p1"
    /\ lastOp.err = Nil
    /\ ctrs[lastOp.tgt].config.Pod = IdP1
    /\ ctrs[lastOp.tgt].config.NetNsCtr = IdA2
    /\ ctrs["a2"].config.Pod = IdP2

\* C9: no container configuration reachable by successfully applied options
\* has both NetNsCtr non-empty and CreateNetNS true.
NetNSJoinedOrCreated ==
    \A c \in (BuiltCtrs \cap DOMAIN ctrs) \ aborted :
        ~(ctrs[c].config.NetNsCtr # "" /\ ctrs[c].config.CreateNetNS)

\* The case C9 is about: WithNetNSFrom succeeded on a container for which
\* WithNetNS had already requested a fresh network namespace.
NetNSFromAfterNetNS ==
    /\ lastOp.kind = "ctr"
    /\ lastOp.name = "WithNetNSFrom"
    /\ lastOp.err = Nil
    /\ ctrs[lastOp.tgt].config.CreateNetNS
    /\ ctrs[lastOp.tgt].config.NetNsCtr = IdA3

\* C10: WithStaticIP and WithStaticMAC applied to a container whose
\* CreateNetNS is false fail and leave StaticIP and StaticMAC unchanged, so a
\* StaticIP or StaticMAC that is set implies CreateNetNS true.
StaticAddressNeedsNetNS ==
    [][\A c \in (BuiltCtrs \cap DOMAIN ctrs) \ aborted :
          /\ (/\ OptionStep("ctr", c)
              /\ lastOp'.name \in {"WithStaticIP", "WithStaticMAC"}
              /\ ~ctrs[c].config.CreateNetNS)
                => /\ lastOp'.err # Nil
                   /\ ctrs'[c].config.StaticIP = ctrs[c].config.StaticIP
                   /\ ctrs'[c].config.StaticMAC = ctrs[c].config.StaticMAC
          /\ (ctrs'[c].config.StaticIP # "" \/ ctrs'[c].config.StaticMAC # "")
                => ctrs'[c].config.CreateNetNS]_vars

\* The case C10 is about: WithStaticMAC succeeded on a container that has no
\* network namespace of its own requested.
StaticMACWithoutNetNS ==
    /\ lastOp.kind = "ctr"
    /\ lastOp.name = "WithStaticMAC"
    /\ lastOp.err = Nil
    /\ ~ctrs[lastOp.tgt].config.CreateNetNS
    /\ ctrs[lastOp.tgt].config.StaticMAC # ""

----------------------------------------------------------------------------
(* Properties: user namespace, dependencies, validated arguments *)

\* C11: a successful WithUserNSFrom(A) on an unfinalized container B sets
\* B.UserNsCtr to A's ID, makes B's ID-mapping table equal to A's, and replaces
\* the Linux UID and GID mappings of B's spec with exactly A's entries in A's
\* order, whatever B's spec held before.
UserNSFromCopiesMappings ==
    [][\A c \in DOMAIN ctrs :
          (/\ OptionStep("ctr", c)
           /\ lastOp'.name = "WithUserNSFrom"
           /\ ~ctrs[c].valid
           /\ lastOp'.err = Nil)
             => LET A == ctrs[lastOp'.ref].config
                    B == ctrs'[c].config
                IN /\ B.UserNsCtr = A.ID
                   /\ B.IDMappings = A.IDMappings
                   /\ B.Spec.UIDMappings = A.IDMappings.UIDMap
                   /\ B.Spec.GIDMappings = A.IDMappings.GIDMap]_vars

\* The case C11 is about: WithUserNSFrom succeeded, B's ID-mapping table is
\* A's, and an entry of B's spec mappings differs from A's entry.
UserNSFromNarrowedHostID ==
    /\ lastOp.kind = "ctr"
    /\ lastOp.name = "WithUserNSFrom"
    /\ lastOp.ref = "a3"
    /\ lastOp.err = Nil
    /\ ctrs[lastOp.tgt].config.UserNsCtr = IdA3
    /\ ctrs[lastOp.tgt].config.IDMappings = ctrs["a3"].config.IDMappings
    /\ ctrs[lastOp.tgt].config.Spec.UIDMappings[1].HostID
          # ctrs["a3"].config.IDMappings.UIDMap[1].HostID


\* C12: WithDependencyCtrs on an unfinalized container: if every element passes
\* the dependency check, config.Dependencies becomes exactly the list of their
\* IDs in the given order, replacing any earlier list and keeping duplicates;
\* if an element fails the check the option fails and config.Dependencies
\* keeps its previous value.
DependencyCtrsStoredInOrder ==
    [][\A c \in DOMAIN ctrs :
          (/\ OptionStep("ctr", c)
           /\ lastOp'.name = "WithDependencyCtrs"
           /\ ~ctrs[c].valid)
             => LET l == lastOp'.arg[1]
                    Passes(h) == /\ h # "nil"
                                 /\ \/ ctrs[c].config.Pod = ""
                                    \/ ctrs[h].config.Pod = ctrs[c].config.Pod
                IN IF \A i \in 1..Len(l) : Passes(l[i])
                   THEN /\ lastOp'.err = Nil
                        /\ ctrs'[c].config.Dependencies =
                              [i \in 1..Len(l) |-> ctrs[l[i]].config.ID]
                   ELSE /\ lastOp'.err # Nil
                        /\ ctrs'[c].config.Dependencies = ctrs[c].config.Dependencies]_vars

\* The case C12 is about: a list naming the same container twice was stored
\* as given.
DuplicateDependencyKept ==
    /\ lastOp.kind = "ctr"
    /\ lastOp.name = "WithDependencyCtrs"
    /\ ~lastOp.wasValid
    /\ lastOp.arg = << <<"a3", "a3">> >>
    /\ lastOp.err = Nil
    /\ ctrs[lastOp.tgt].config.Dependencies = <<IdA3, IdA3>>


\* C13: for every value of the signed signal type, WithStopSignal on an
\* unfinalized container succeeds iff 1 <= signal <= 64; on success
\* config.StopSignal equals the signal, on rejection it is unchanged, so a
\* config.StopSignal set by the option is within [1,64].
StopSignalInRange ==
    [][\A c \in DOMAIN ctrs :
          /\ (/\ OptionStep("ctr", c)
              /\ lastOp'.name = "WithStopSignal"
              /\ ~ctrs[c].valid)
                => LET signal == lastOp'.arg[1]
                   IN IF 1 <= signal /\ signal <= 64
                      THEN /\ lastOp'.err = Nil
                           /\ ctrs'[c].config.StopSignal = signal
                      ELSE /\ lastOp'.err # Nil
                           /\ ctrs'[c].config.StopSignal = ctrs[c].config.StopSignal
          /\ ctrs'[c].config.StopSignal \in 0..64]_vars

\* The case C13 is about: WithStopSignal accepted a negative signal and the
\* stored stop signal lies above 64.
NegativeStopSignalStored ==
    /\ lastOp.kind = "ctr"
    /\ lastOp.name = "WithStopSignal"
    /\ ~lastOp.wasValid
    /\ lastOp.arg[1] < 0
    /\ lastOp.err = Nil
    /\ ctrs[lastOp.tgt].config.StopSignal > 64


LogDriverValidated ==
    [][\A c \in DOMAIN ctrs :
          (/\ OptionStep("ctr", c)
           /\ lastOp'.name = "WithLogDriver"
           /\ ~ctrs[c].valid)
             => LET d == lastOp'.arg[1]
                IN /\ lastOp'.err = Nil
                      <=> d \in {JournaldLogging, KubernetesLogging, JSONLogging, NoLogging,
                                 PassthroughLogging}
                   /\ d = "" => lastOp'.err # Nil
                   /\ lastOp'.err = Nil => ctrs'[c].config.LogDriver = d
                   /\ lastOp'.err # Nil
                         => ctrs'[c].config.LogDriver = ctrs[c].config.LogDriver]_vars

\* The case C15 is about: the empty driver was rejected after a driver had
\* been stored, and the stored one is still there.
EmptyLogDriverRejected ==
    /\ lastOp.kind = "ctr"
    /\ lastOp.name = "WithLogDriver"
    /\ ~lastOp.wasValid
    /\ lastOp.arg = <<"">>
    /\ lastOp.err = ErrInvalidArg
    /\ ctrs[lastOp.tgt].config.LogDriver = PassthroughLogging

\* C16: WithCgroupsMode(m) on an unfinalized container succeeds iff m is one of
\* disabled, enabled, no-conmon, split; on success config.CgroupsMode equals m
\* and m = disabled sets NoCgroups to true; on rejection neither CgroupsMode
\* nor NoCgroups changes.
CgroupsModeValidated ==
    [][\A c \in DOMAIN ctrs :
          (/\ OptionStep("ctr", c)
           /\ lastOp'.name = "WithCgroupsMode"
           /\ ~ctrs[c].valid)
             => LET m == lastOp'.arg[1]
                IN IF m \in {"disabled", "enabled", "no-conmon", "split"}
                   THEN /\ lastOp'.err = Nil
                        /\ ctrs'[c].config.CgroupsMode = m
                        /\ m = "disabled" => ctrs'[c].config.NoCgroups
                   ELSE /\ lastOp'.err # Nil
                        /\ ctrs'[c].config.CgroupsMode = ctrs[c].config.CgroupsMode
                        /\ ctrs'[c].config.NoCgroups = ctrs[c].config.NoCgroups]_vars

\* The case C16 is about: mode disabled was accepted and set the NoCgroups
\* flag.
CgroupsDisabledSetsNoCgroups ==
    /\ lastOp.kind = "ctr"
    /\ lastOp.name = "WithCgroupsMode"
    /\ ~lastOp.wasValid
    /\ lastOp.arg = <<"disabled">>
    /\ lastOp.err = Nil
    /\ ctrs[lastOp.tgt].config.CgroupsMode = "disabled"
    /\ ctrs[lastOp.tgt].config.NoCgroups


----------------------------------------------------------------------------
(* Properties: DNS options *)

\* C17: WithDNS is atomic per batch: if a string of the batch is not a valid IP
\* literal the option fails and config.DNSServer is exactly what it was before
\* the call; if all parse, the parsed addresses are appended in order after
\* the servers already present.
DNSBatchIsAtomic ==
    [][\A c \in DOMAIN ctrs :
          (/\ OptionStep("ctr", c)
           /\ lastOp'.name = "WithDNS"
           /\ ~ctrs[c].valid)
             => LET batch == lastOp'.arg[1]
                IN IF \A i \in 1..Len(batch) : ParseIP(batch[i]) # ""
                   THEN /\ lastOp'.err = Nil
                        /\ ctrs'[c].config.DNSServer =
                              ctrs[c].config.DNSServer
                                 \o [i \in 1..Len(batch) |-> ParseIP(batch[i])]
                   ELSE /\ lastOp'.err # Nil
                        /\ ctrs'[c].config.DNSServer = ctrs[c].config.DNSServer]_vars

\* The case C17 is about: a batch whose second string does not parse was
\* rejected, and the servers are the two of the batch stored before.
BadDNSBatchLeftNoEntry ==
    /\ lastOp.kind = "ctr"
    /\ lastOp.name = "WithDNS"
    /\ ~lastOp.wasValid
    /\ lastOp.arg = << <<"10.0.0.1", "bad">> >>
    /\ lastOp.err = ErrInvalidArg
    /\ ctrs[lastOp.tgt].config.DNSServer = <<ParseIP("::1"), ParseIP("10.0.0.1")>>

\* C18: once WithUseImageResolvConf has been applied to a container, every
\* later WithDNSOption on that container fails and leaves config.DNSOption
\* unchanged; while the container is under construction the error is the
\* invalid-argument error.
DNSOptionRefusedAfterImageResolvConf ==
    [][\A c \in DOMAIN ctrs :
          /\ ctrs[c].config.UseImageResolvConf => ctrs'[c].config.UseImageResolvConf
          /\ (/\ OptionStep("ctr", c)
              /\ lastOp'.name = "WithDNSOption"
              /\ ctrs[c].config.UseImageResolvConf)
                => /\ lastOp'.err # Nil
                   /\ ~ctrs[c].valid => lastOp'.err = ErrInvalidArg
                   /\ ctrs'[c].config.DNSOption = ctrs[c].config.DNSOption]_vars

\* The case C18 is about: WithDNSOption was refused on a container under
\* construction that has UseImageResolvConf set.
DNSOptionRefused ==
    /\ lastOp.kind = "ctr"
    /\ lastOp.name = "WithDNSOption"
    /\ ~lastOp.wasValid
    /\ lastOp.arg = << <<"ndots:1">> >>
    /\ lastOp.err = ErrInvalidArg
    /\ ctrs[lastOp.tgt].config.UseImageResolvConf
    /\ ctrs[lastOp.tgt].config.DNSOption = <<>>

----------------------------------------------------------------------------
(* Properties: storage configuration *)

\* Whether a WithStorageConfig argument supplies one of RunRoot, GraphRoot,
\* GraphDriverName, GraphDriverOptions.
SuppliesStorageField(config) ==
    \/ config.RunRoot # ""
    \/ config.GraphRoot # ""
    \/ config.GraphDriverName # ""
    \/ ~IsNil(config.GraphDriverOptions)

\* The value a root has after the call: the supplied one, else the one stored
\* earlier, else the host default.
RootAfter(supplied, stored, hostDefault) ==
    IF supplied # "" THEN supplied ELSE IF stored # "" THEN stored ELSE hostDefault

\* C20: after a successful WithStorageConfig call that supplies at least one
\* of RunRoot, GraphRoot, GraphDriverName, GraphDriverOptions, the runtime's
\* storageConfig.RunRoot and storageConfig.GraphRoot are both non-empty: a
\* value supplied in the call or stored earlier is kept and only a still-empty
\* one gets the host default; a call supplying none of the four fills in
\* neither.
StorageRootsPopulated ==
    [][\A r \in DOMAIN rts :
          (/\ OptionStep("rt", r)
           /\ lastOp'.name = "WithStorageConfig"
           /\ ~rts[r].valid
           /\ lastOp'.err = Nil)
             => LET config == lastOp'.arg[1]
                    old == rts[r].storageConfig
                    new == rts'[r].storageConfig
                IN IF SuppliesStorageField(config)
                   THEN /\ new.RunRoot # ""
                        /\ new.GraphRoot # ""
                        /\ new.RunRoot =
                              RootAfter(config.RunRoot, old.RunRoot, HostStoreOptions.RunRoot)
                        /\ new.GraphRoot =
                              RootAfter(config.GraphRoot, old.GraphRoot,
                                        HostStoreOptions.GraphRoot)
                   ELSE /\ new.RunRoot = old.RunRoot
                        /\ new.GraphRoot = old.GraphRoot]_vars

\* The case C20 is about: a call supplying only the graph driver's options
\* succeeded and both roots hold the host default.
DriverOptionsAloneFilledRoots ==
    /\ lastOp.kind = "rt"
    /\ lastOp.name = "WithStorageConfig"
    /\ ~lastOp.wasValid
    /\ lastOp.err = Nil
    /\ lastOp.arg[1].RunRoot = ""
    /\ lastOp.arg[1].GraphRoot = ""
    /\ lastOp.arg[1].GraphDriverName = ""
    /\ ~IsNil(lastOp.arg[1].GraphDriverOptions)
    /\ rts[lastOp.tgt].storageConfig.RunRoot = HostStoreOptions.RunRoot
    /\ rts[lastOp.tgt].storageConfig.GraphRoot = HostStoreOptions.GraphRoot


\* Whether a WithStorageConfig argument sets GraphDriverName and leaves
\* RunRoot and GraphRoot empty.
OnlyGraphDriverName(config) ==
    /\ config.GraphDriverName # ""
    /\ config.RunRoot = ""
    /\ config.GraphRoot = ""

\* C21: after WithStorageConfig is applied to a fresh runtime with only
\* GraphDriverName set (RunRoot and GraphRoot empty), RunRoot and GraphRoot
\* hold the host defaults, and the runtime's StaticDir equals GraphRoot/libpod
\* and its VolumePath equals GraphRoot/volumes for the resulting GraphRoot.
DriverNameAloneDerivesDirs ==
    [][\A r \in DOMAIN rts :
          (/\ OptionStep("rt", r)
           /\ lastOp'.name = "WithStorageConfig"
           /\ rts[r] = ZeroRuntime
           /\ OnlyGraphDriverName(lastOp'.arg[1])
           /\ lastOp'.err = Nil)
             => LET new == rts'[r]
                IN /\ new.storageConfig.RunRoot = HostStoreOptions.RunRoot
                   /\ new.storageConfig.GraphRoot = HostStoreOptions.GraphRoot
                   /\ new.config.Engine.StaticDir =
                         FilepathJoin(new.storageConfig.GraphRoot, "libpod")
                   /\ new.config.Engine.VolumePath =
                         FilepathJoin(new.storageConfig.GraphRoot, "volumes")]_vars

\* The case C21 is about: the first option of a runtime was WithStorageConfig
\* with only GraphDriverName; both roots hold the host defaults while
\* StaticDir and VolumePath are still empty.
DriverNameAloneLeftDirsEmpty ==
    /\ lastOp.kind = "rt"
    /\ lastOp.name = "WithStorageConfig"
    /\ budget = MaxRtOps - 1
    /\ OnlyGraphDriverName(lastOp.arg[1])
    /\ lastOp.err = Nil
    /\ rts[lastOp.tgt].storageConfig.RunRoot = HostStoreOptions.RunRoot
    /\ rts[lastOp.tgt].storageConfig.GraphRoot = HostStoreOptions.GraphRoot
    /\ rts[lastOp.tgt].config.Engine.StaticDir = ""
    /\ rts[lastOp.tgt].config.Engine.VolumePath = ""


\* The graph driver options a storage configuration holds, as a set.
DriverOptionsOf(config) ==
    IF IsNil(config.GraphDriverOptions) THEN {}
    ELSE {Deref(config.GraphDriverOptions)[i] :
             i \in 1..Len(Deref(config.GraphDriverOptions))}

\* C22: across any sequence of WithStorageConfig calls, graph driver options
\* stored for one driver do not survive a switch to another driver: after a
\* call that changes GraphDriverName, with or without GraphDriverOptions in
\* that call, storageConfig.GraphDriverOptions holds only options supplied in
\* that call, none left from an earlier call made for the previous driver.
StaleDriverOptionsDropped ==
    [][\A r \in DOMAIN rts :
          (/\ OptionStep("rt", r)
           /\ lastOp'.name = "WithStorageConfig"
           /\ ~rts[r].valid
           /\ rts[r].storageConfig.GraphDriverName # ""
           /\ lastOp'.arg[1].GraphDriverName # ""
           /\ lastOp'.arg[1].GraphDriverName # rts[r].storageConfig.GraphDriverName)
             => DriverOptionsOf(rts'[r].storageConfig)
                   \subseteq DriverOptionsOf(lastOp'.arg[1])]_vars

\* The case C22 is about: options were stored with driver "vfs", a later call
\* switched the driver to "overlay" without options, and the stored options
\* are still those of "vfs".
VfsOptionsSurvivedSwitch ==
    /\ lastOp.kind = "rt"
    /\ lastOp.name = "WithStorageConfig"
    /\ ~lastOp.wasValid
    /\ lastOp.err = Nil
    /\ lastOp.arg[1].GraphDriverName = "overlay"
    /\ IsNil(lastOp.arg[1].GraphDriverOptions)
    /\ rts[lastOp.tgt].storageConfig.GraphDriverName = "overlay"
    /\ DriverOptionsOf(rts[lastOp.tgt].storageConfig) = {"vfs.opt"}


----------------------------------------------------------------------------
(* Properties: failing options *)


\* C23: for every option function applied to an unfinalized entity, a call
\* that returns an error leaves the entity exactly as it was before the call
\* (WithNamedVolumes with a bad k-th volume appends none of the batch,
\* WithEnvSecrets with a failing lookup leaves EnvSecrets unchanged,
\* WithStorageConfig failing in the default-store lookup leaves storageConfig
\* and storageSet unchanged).
FailedOptionLeavesEntityUntouched ==
    [][/\ \A c \in DOMAIN ctrs :
             (OptionStep("ctr", c) /\ ~ctrs[c].valid /\ lastOp'.err # Nil)
                => ctrs'[c] = ctrs[c]
       /\ \A r \in DOMAIN rts :
             (OptionStep("rt", r) /\ ~rts[r].valid /\ lastOp'.err # Nil)
                => rts'[r] = rts[r]
       /\ \A p \in DOMAIN pods :
             (OptionStep("pod", p) /\ ~pods[p].valid /\ lastOp'.err # Nil)
                => pods'[p] = pods[p]
       /\ \A v \in DOMAIN vols :
             (OptionStep("vol", v) /\ ~vols[v].valid /\ lastOp'.err # Nil)
                => vols'[v] = vols[v]]_vars

\* The case C23 is about: WithStorageConfig failed in the default-store lookup
\* on a runtime under construction and the supplied graph driver name is
\* stored nevertheless.
FailedStorageConfigKeptDriverName ==
    /\ lastOp.kind = "rt"
    /\ lastOp.name = "WithStorageConfig"
    /\ ~lastOp.wasValid
    /\ lastOp.err = ErrStoreDefaults
    /\ lastOp.arg[1].GraphDriverName = "overlay"
    /\ rts[lastOp.tgt].storageConfig.GraphDriverName = "overlay"
    /\ rts[lastOp.tgt].storageSet.GraphDriverNameSet
    /\ rts[lastOp.tgt].storageConfig.RunRoot = ""


----------------------------------------------------------------------------
(* Properties: containers constructed side by side *)

\* C24: WithUTSNSFromPod(P) applied to an unfinalized container A that is a
\* member of pod P fails and leaves A.UTSNsCtr unchanged while P has no infra
\* container, and succeeds with A.UTSNsCtr equal to the infra container's ID
\* once P has one; applied with a pod that A has not joined it fails without
\* changing UTSNsCtr.
UTSNSFromPodNeedsInfra ==
    [][\A c \in DOMAIN ctrs :
          (/\ OptionStep("ctr", c)
           /\ lastOp'.name = "WithUTSNSFromPod"
           /\ ~ctrs[c].valid)
             => LET P == pods[lastOp'.ref]
                    old == ctrs[c].config.UTSNsCtr
                    new == ctrs'[c].config.UTSNsCtr
                IN IF ctrs[c].config.Pod = PodID(P) /\ P.state.InfraContainerID # ""
                   THEN lastOp'.err = Nil /\ new = P.state.InfraContainerID
                   ELSE lastOp'.err # Nil /\ new = old]_vars

\* The case C24 is about: pod2 had no infra container, got one, and
\* WithUTSNSFromPod(pod2) then succeeded on a member of pod2 that is still
\* under construction.
UTSNSFromPodAfterInfraCreated ==
    /\ lastOp.kind = "ctr"
    /\ lastOp.name = "WithUTSNSFromPod"
    /\ lastOp.ref = "p2"
    /\ ~lastOp.wasValid
    /\ lastOp.err = Nil
    /\ StorePods["p2"].state.InfraContainerID = ""
    /\ pods["p2"].state.InfraContainerID = IdA2
    /\ ctrs[lastOp.tgt].config.Pod = IdP2
    /\ ctrs[lastOp.tgt].config.UTSNsCtr = IdA2


\* The containers an option step refers to: the argument of a namespace-from
\* option, the elements of a dependency list.
StepReferences(op) ==
    IF op.name = "WithDependencyCtrs"
    THEN {op.arg[1][i] : i \in 1..Len(op.arg[1])}
    ELSE {op.ref}

----------------------------------------------------------------------------
(* Properties: stored values *)

\* C26: after any sequence of WithSdNotifyMode calls on a container,
\* config.SdNotifyMode is either empty or exactly one of the values listed in
\* SdNotifyModeValues (container, conmon, ignore); a mode that differs from a
\* listed value only in letter case is never stored as given.
SdNotifyModeIsListed ==
    \A c \in DOMAIN ctrs :
       \/ ctrs[c].config.SdNotifyMode = ""
       \/ StringInSlice(ctrs[c].config.SdNotifyMode, SdNotifyModeValues)

\* The case C26 is about: WithSdNotifyMode("CONMON") succeeded on a container
\* under construction and the mode is stored in upper case.
UpperCaseSdNotifyModeStored ==
    /\ lastOp.kind = "ctr"
    /\ lastOp.name = "WithSdNotifyMode"
    /\ ~lastOp.wasValid
    /\ lastOp.err = Nil
    /\ ctrs[lastOp.tgt].config.SdNotifyMode = "CONMON"
    /\ ToLower(ctrs[lastOp.tgt].config.SdNotifyMode) = "conmon"


\* C27: each runtime option mutates only its own configuration concern:
\* WithDefaultInfraName leaves the infra image unchanged, so after
\* WithDefaultInfraImage(img) and WithDefaultInfraName(name), in either order,
\* the runtime's InfraImage equals img.
InfraNameKeepsInfraImage ==
    [][\A r \in DOMAIN rts :
          (/\ OptionStep("rt", r)
           /\ lastOp'.name = "WithDefaultInfraName"
           /\ ~rts[r].valid)
             => /\ lastOp'.err = Nil
                /\ rts'[r].config.Engine.InfraImage = rts[r].config.Engine.InfraImage]_vars

\* The case C27 is about: WithDefaultInfraName("infra") succeeded on a runtime
\* under construction and the infra image is the name.
InfraNameStoredAsInfraImage ==
    /\ lastOp.kind = "rt"
    /\ lastOp.name = "WithDefaultInfraName"
    /\ ~lastOp.wasValid
    /\ lastOp.err = Nil
    /\ budget = 0
    /\ rts[lastOp.tgt].config.Engine.InfraImage = "infra"


\* C28: after any sequence of successful WithCgroupsMode calls on a container,
\* config.NoCgroups is true iff config.CgroupsMode is "disabled"; in particular
\* WithCgroupsMode("disabled") followed by WithCgroupsMode("enabled") leaves
\* NoCgroups false.
NoCgroupsIffDisabled ==
    \A c \in DOMAIN ctrs :
       ctrs[c].config.NoCgroups <=> (ctrs[c].config.CgroupsMode = "disabled")

\* The case C28 is about: WithCgroupsMode("enabled") succeeded after
\* WithCgroupsMode("disabled") and NoCgroups is still true.
EnabledAfterDisabledKeepsNoCgroups ==
    /\ lastOp.kind = "ctr"
    /\ lastOp.name = "WithCgroupsMode"
    /\ ~lastOp.wasValid
    /\ lastOp.arg = <<"enabled">>
    /\ lastOp.err = Nil
    /\ ctrs[lastOp.tgt].config.CgroupsMode = "enabled"
    /\ ctrs[lastOp.tgt].config.NoCgroups


\* C29: after any sequence of successful WithTmpDir and WithEventsLogger calls
\* on a runtime in which WithEventsLogger occurs at least once,
\* EventsLogFilePath equals <current TmpDir>/events/events.log, whether
\* WithTmpDir was applied before or after WithEventsLogger.
EventsLogFileFollowsTmpDir ==
    \A r \in DOMAIN rts :
       rts[r].config.Engine.EventsLogger # ""
          => rts[r].config.Engine.EventsLogFilePath =
                FilepathJoin(FilepathJoin(rts[r].config.Engine.TmpDir, "events"),
                             "events.log")

\* The case C29 is about: WithTmpDir succeeded after WithEventsLogger and the
\* events log file is still the one under the earlier, empty TmpDir.
TmpDirSetAfterEventsLogger ==
    /\ lastOp.kind = "rt"
    /\ lastOp.name = "WithTmpDir"
    /\ ~lastOp.wasValid
    /\ lastOp.err = Nil
    /\ rts[lastOp.tgt].config.Engine.EventsLogger = "file"
    /\ rts[lastOp.tgt].config.Engine.TmpDir = "/tmp/a"
    /\ rts[lastOp.tgt].config.Engine.EventsLogFilePath = "events/events.log"


\* C30: the finalized error an option returns names the kind of entity it was
\* applied to: every container create option (WithMaxLogSize included) that
\* refuses a finalized container returns ErrCtrFinalized, never the runtime-,
\* pod- or volume-finalized error.
FinalizedCtrErrorNamesContainer ==
    [][\A c \in DOMAIN ctrs :
          (ctrs[c].valid /\ OptionStep("ctr", c) /\ lastOp'.err # Nil)
             => lastOp'.err = ErrCtrFinalized]_vars

\* The case C30 is about: WithMaxLogSize refused a finalized container of the
\* store with the runtime-finalized error.
MaxLogSizeReturnedRuntimeError ==
    /\ lastOp.kind = "ctr"
    /\ lastOp.name = "WithMaxLogSize"
    /\ lastOp.wasValid
    /\ ctrs[lastOp.tgt].valid
    /\ CtrID(ctrs[lastOp.tgt]) \in store
    /\ lastOp.err = ErrRuntimeFinalized

=============================================================================
